---- MODULE Spec2Model ----
(***************************************************************************)
(* On-demand deep-zoom tile server: the tile route of src/src/server.js    *)
(* and the TileGenerator of src/src/tileGenerator.js.                      *)
(*                                                                         *)
(* Strings that the code parses or matches (URL segments, file names) are  *)
(* sequences of one-character strings, so that parseInt, the tile regex,   *)
(* the _files suffix strip and startsWith are computed, not assumed.       *)
(***************************************************************************)
EXTENDS Integers, Sequences, FiniteSets, TLC

----------------------------------------------------------------------------
(* Bounds of the model *)

\* number of HTTP tile requests that can be in flight at once
NReq == 2
\* total number of tile requests issued in one behaviour
MaxCalls == 2

Reqs == 1..NReq

None == [none |-> TRUE]

----------------------------------------------------------------------------
(* String helpers *)

Digits == {"0", "1", "2", "3", "4", "5", "6", "7", "8", "9"}

DigitVal(c) ==
  CASE c = "0" -> 0 [] c = "1" -> 1 [] c = "2" -> 2 [] c = "3" -> 3
    [] c = "4" -> 4 [] c = "5" -> 5 [] c = "6" -> 6 [] c = "7" -> 7
    [] c = "8" -> 8 [] c = "9" -> 9

AllDigits(s) == \A i \in 1..Len(s) : s[i] \in Digits

\* value of a non-empty run of decimal digits
RECURSIVE DecimalValue(_)
DecimalValue(s) ==
  IF Len(s) = 0 THEN 0
  ELSE 10 * DecimalValue(SubSeq(s, 1, Len(s) - 1)) + DigitVal(s[Len(s)])

\* length of the longest prefix of s made of digits
RECURSIVE DigitPrefixLen(_)
DigitPrefixLen(s) ==
  IF Len(s) = 0 \/ s[1] \notin Digits THEN 0
  ELSE 1 + DigitPrefixLen(Tail(s))

\* String.prototype.startsWith
StartsWith(s, p) == Len(p) <= Len(s) /\ SubSeq(s, 1, Len(p)) = p

\* String.prototype.endsWith
EndsWith(s, p) == Len(p) <= Len(s) /\ SubSeq(s, Len(s) - Len(p) + 1, Len(s)) = p

\* a JavaScript number that is either NaN or an integer
NaN == [nan |-> TRUE, v |-> 0]
Num(n) == [nan |-> FALSE, v |-> n]

\* parseInt(s) with no radix: optional sign, then the longest run of decimal
\* digits; NaN when there is none (the segments used here have no leading
\* white space and no 0x prefix)
ParseInt(s) ==
  LET neg  == Len(s) > 0 /\ s[1] = "-"
      body == IF Len(s) > 0 /\ s[1] \in {"-", "+"} THEN Tail(s) ELSE s
      n    == DigitPrefixLen(body)
  IN  IF n = 0 THEN NaN
      ELSE IF neg THEN Num(0 - DecimalValue(SubSeq(body, 1, n)))
      ELSE Num(DecimalValue(SubSeq(body, 1, n)))

\* imageIdWithFiles.replace(/_files$/, '')
FilesSuffix == <<"_", "f", "i", "l", "e", "s">>
StripFilesSuffix(s) ==
  IF EndsWith(s, FilesSuffix) THEN SubSeq(s, 1, Len(s) - Len(FilesSuffix)) ELSE s

\* tile.match(/^(\d+)_(\d+)\.(jpg|jpeg)$/): the pairs <<i, j>> of positions of
\* the underscore and of the dot for which the segment matches
TileMatches(s) ==
  {ij \in {i \in 1..Len(s) : s[i] = "_"} \X {j \in 1..Len(s) : s[j] = "."} :
     /\ ij[1] > 1 /\ ij[2] > ij[1] + 1
     /\ AllDigits(SubSeq(s, 1, ij[1] - 1))
     /\ AllDigits(SubSeq(s, ij[1] + 1, ij[2] - 1))
     /\ SubSeq(s, ij[2] + 1, Len(s))
          \in {<<"j", "p", "g">>, <<"j", "p", "e", "g">>}}
TileMatch(s) == TileMatches(s) # {}
\* parseInt(match[1]), parseInt(match[2])
TileX(s) == LET ij == CHOOSE m \in TileMatches(s) : TRUE
            IN  ParseInt(SubSeq(s, 1, ij[1] - 1)).v
TileY(s) == LET ij == CHOOSE m \in TileMatches(s) : TRUE
            IN  ParseInt(SubSeq(s, ij[1] + 1, ij[2] - 1)).v

----------------------------------------------------------------------------
(* Pyramid geometry of generateTile *)

TileSize == 256

\* the first number whatever the second
Max_First(a, b) == a

Max(a, b) == IF a >= b THEN a ELSE b
Min(a, b) == IF a <= b THEN a ELSE b

RECURSIVE Pow2(_)
Pow2(n) == IF n <= 0 THEN 1 ELSE 2 * Pow2(n - 1)

CeilDiv(a, b) == (a + b - 1) \div b

\* least k >= 0 with t * 2^k >= m
RECURSIVE CeilLog2Up(_, _)
CeilLog2Up(m, t) == IF t >= m THEN 0 ELSE 1 + CeilLog2Up(m, 2 * t)

\* greatest j >= 0 with m * 2^j <= t, for 0 < m <= t
RECURSIVE FloorLog2Up(_, _)
FloorLog2Up(m, t) == IF 2 * m > t THEN 0 ELSE 1 + FloorLog2Up(2 * m, t)

\* Math.ceil(Math.log2(m / t)) for positive integers m and t
CeilLog2Ratio(m, t) ==
  IF m >= t THEN CeilLog2Up(m, t) ELSE 0 - FloorLog2Up(m, t)

\* a level count one too high
calculateLevels_OneMore(width, height, tileSize) ==
  CeilLog2Ratio(Max(width, height), tileSize) + 2

\* calculateLevels(width, height, tileSize); the quotient of two integers
\* below 2^31 is a power of two as a double only if it is one exactly, so
\* the integer computation agrees with Math.log2 on the double
calculateLevels(width, height, tileSize) ==
  CeilLog2Ratio(Max(width, height), tileSize) + 1

\* The scale Math.pow(2, e) is kept as its exponent e = maxLevels - level - 1,
\* which is negative for a level above the top one.
\* the quotient rounded down instead of up
ScaledDim_Floor(dim, e) == IF e >= 0 THEN dim \div Pow2(e) ELSE dim * Pow2(0 - e)

\* Math.ceil(dim / 2^e)
ScaledDim(dim, e) == IF e >= 0 THEN CeilDiv(dim, Pow2(e)) ELSE dim * Pow2(0 - e)
\* Math.floor(n * 2^e)
FloorMulScale(n, e) == IF e >= 0 THEN n * Pow2(e) ELSE n \div Pow2(0 - e)
\* the extent of the scaled level taken as it is, not multiplied by the scale
CeilMulScale_Unscaled(n, e) == n

\* Math.ceil(n * 2^e)
CeilMulScale(n, e) == IF e >= 0 THEN n * Pow2(e) ELSE CeilDiv(n, Pow2(0 - e))

\* an exponent one too high
ScaleExponent_OneMore(maxLevels, level) == maxLevels - level

\* line 103: the exponent of the scale
ScaleExponent(maxLevels, level) == maxLevels - level - 1

\* a full tile whatever is left of the level
TileExtent_Unclipped(tileSize, scaledDim, offset) == tileSize

\* lines 112-113: the tile's extent on the scaled level
TileExtent(tileSize, scaledDim, offset) == Min(tileSize, scaledDim - offset)

\* the region as multiplied, not cut at the image edge
ClipRegion_Unclipped(region, original, offset) == region

\* lines 139-140: the source region cut at the edge of the original
ClipRegion(region, original, offset) == Min(region, original - offset)

\* line 116 of generateTile: the tile lies outside the scaled image
\* the test with its left-hand comparison lost
TileOutsideBounds_TopOnly(left, top, scaledWidth, scaledHeight) ==
  top >= scaledHeight

TileOutsideBounds(left, top, scaledWidth, scaledHeight) ==
  left >= scaledWidth \/ top >= scaledHeight

\* generateTile up to the codec call, for an integer level: what it decides
\* and the arguments it hands to extract and resize
TilePlan(level, x, y, tileSize, originalWidth, originalHeight) ==
  LET maxLevels    == calculateLevels(originalWidth, originalHeight, tileSize)
      e            == ScaleExponent(maxLevels, level)
      scaledWidth  == ScaledDim(originalWidth, e)
      scaledHeight == ScaledDim(originalHeight, e)
      left         == x * tileSize
      top          == y * tileSize
      width        == TileExtent(tileSize, scaledWidth, left)
      height       == TileExtent(tileSize, scaledHeight, top)
      originalLeft == FloorMulScale(left, e)
      originalTop  == FloorMulScale(top, e)
      regionWidth  == CeilMulScale(width, e)
      regionHeight == CeilMulScale(height, e)
  IN  [skip    |-> TileOutsideBounds(left, top, scaledWidth, scaledHeight),
       scaleExp |-> e,
       scaled  |-> [width |-> scaledWidth, height |-> scaledHeight],
       region  |-> [left |-> left, top |-> top, width |-> width, height |-> height],
       extract |-> [left   |-> originalLeft,
                    top    |-> originalTop,
                    width  |-> ClipRegion(regionWidth, originalWidth, originalLeft),
                    height |-> ClipRegion(regionHeight, originalHeight, originalTop)],
       resize  |-> [width |-> width, height |-> height]]

\* generateTile with the level the route parsed.  With a NaN level every
\* derived number is NaN: the comparison of line 116 is false, so the tile is
\* not skipped, and extract receives NaN.
generateTilePlan(level, x, y, tileSize, originalWidth, originalHeight) ==
  IF level.nan
    THEN [skip |-> FALSE, nanArgs |-> TRUE,
          extract |-> [left |-> 0, top |-> 0, width |-> 0, height |-> 0],
          resize  |-> [width |-> 0, height |-> 0]]
    ELSE [nanArgs |-> FALSE]
           @@ TilePlan(level.v, x, y, tileSize, originalWidth, originalHeight)

\* the argument checks of extract() and resize(), which throw synchronously:
\* extract wants integers >= 0, resize wants integers > 0
CodecArgsAccepted(plan) ==
  /\ ~plan.nanArgs
  /\ plan.extract.left >= 0 /\ plan.extract.top >= 0
  /\ plan.extract.width >= 0 /\ plan.extract.height >= 0
  /\ plan.resize.width > 0 /\ plan.resize.height > 0

----------------------------------------------------------------------------
(* The files and the requests of the model *)

ExtTif == <<".", "t", "i", "f">>
ExtScn == <<".", "s", "c", "n">>

IdA  == <<"a">>
IdAB == <<"a", "b">>
IdB  == <<"b">>
IdC  == <<"c">>

\* the originals directory: file name -> what the codec finds in the file
\* (ok = FALSE: a file the codec cannot read) and the file's position in
\* the order in which fs.readdir lists the directory
InitialOriginals ==
  (IdA \o ExtTif  :> [width |-> 600, height |-> 300, ok |-> TRUE, pos |-> 1]) @@
  (IdAB \o ExtScn :> [width |-> 300, height |-> 300, ok |-> TRUE, pos |-> 2]) @@
  (IdC \o ExtTif  :> [width |-> 256, height |-> 256, ok |-> FALSE, pos |-> 3])

Jpg  == <<".", "j", "p", "g">>
Jpeg == <<".", "j", "p", "e", "g">>

\* the tile URLs requested: /api/image/{id}/{level}/{tile}
Urls ==
  { [id |-> IdA \o FilesSuffix,  level |-> <<"2">>, tile |-> <<"0", "_", "0">> \o Jpg],
    [id |-> IdA \o FilesSuffix,  level |-> <<"2">>, tile |-> <<"1", "_", "0">> \o Jpeg],
    [id |-> IdA \o FilesSuffix,  level |-> <<"0">>, tile |-> <<"1", "_", "0">> \o Jpg],
    [id |-> IdA \o FilesSuffix,  level |-> <<"a", "b", "c">>, tile |-> <<"0", "_", "0">> \o Jpg],
    [id |-> IdA \o FilesSuffix,  level |-> <<"0">>, tile |-> <<"0", "_", "0", ".", "p", "n", "g">>],
    [id |-> IdAB \o FilesSuffix, level |-> <<"0">>, tile |-> <<"0", "_", "0">> \o Jpg],
    [id |-> IdB \o FilesSuffix,  level |-> <<"0">>, tile |-> <<"0", "_", "0">> \o Jpg],
    [id |-> IdC \o FilesSuffix,  level |-> <<"0">>, tile |-> <<"0", "_", "0">> \o Jpg] }


IdAC == <<"a", "c">>

\* the tile URLs requested of the store
StoreUrls ==
  { [id |-> IdA \o FilesSuffix,  level |-> <<"0">>, tile |-> <<"0", "_", "0">> \o Jpg],
    [id |-> IdAB \o FilesSuffix, level |-> <<"-", "1">>, tile |-> <<"0", "_", "0">> \o Jpg],
    [id |-> IdAB \o FilesSuffix, level |-> <<"2">>, tile |-> <<"0", "_", "0">> \o Jpg],
    [id |-> IdAC \o FilesSuffix, level |-> <<"0">>, tile |-> <<"0", "_", "0">> \o Jpg],
    [id |-> IdB \o FilesSuffix,  level |-> <<"0">>, tile |-> <<"0", "_", "0">> \o Jpg] }

\* The route handler parses a URL once (server.js lines 80-93).  For the
\* URLs of the model that pass the regex the parse is tabulated, so that it
\* is computed once per URL and not once per use.
RouteParams ==
  [u \in {v \in Urls \cup StoreUrls : TileMatch(v.tile)} |->
     [imageId |-> StripFilesSuffix(u.id), level |-> ParseInt(u.level),
      x |-> TileX(u.tile), y |-> TileY(u.tile)]]

\* what the route handler derives from the URL (server.js lines 80-93)
ImageIdOf(u) ==
  IF u \in DOMAIN RouteParams THEN RouteParams[u].imageId ELSE StripFilesSuffix(u.id)
LevelOf(u) ==
  IF u \in DOMAIN RouteParams THEN RouteParams[u].level ELSE ParseInt(u.level)
XOf(u) == IF u \in DOMAIN RouteParams THEN RouteParams[u].x ELSE TileX(u.tile)
YOf(u) == IF u \in DOMAIN RouteParams THEN RouteParams[u].y ELSE TileY(u.tile)

\* path.join(tilesDir, imageId, String(level), `${x}_${y}.jpg`) and its
\* directory, as the tuple of their components
TileDirOf(u)  == <<ImageIdOf(u), LevelOf(u)>>
TilePathOf(u) == <<ImageIdOf(u), LevelOf(u), XOf(u), YOf(u)>>

----------------------------------------------------------------------------
(* State *)

VARIABLES
  originalDir,    \* uploads/original: file name -> file content
  metadataCache,  \* this.metadataCache: imageId -> metadata
  tileFiles,      \* uploads/tiles: tile path -> "partial" | "complete"
  tileDirs,       \* the directories created under uploads/tiles
  req,            \* the tile requests in flight, one record per slot
  nCalls,         \* number of requests issued so far
  lastSolo,       \* history: the last getTile call that ran alone, if its
                  \* successor is still the next call
  probeLog,       \* history: the probes of this process, for as long as no
                  \* two of its getTile calls have overlapped
  geo,            \* a call of the geometry functions: arguments and results
  leftovers,      \* history: the tile paths that hold what a failed render
                  \* left behind
  tempDir,        \* uploads/temp: file name -> file content
  ing,            \* the processUpload calls, one record per call
  list,           \* the listImages call in progress and its history
  pathCall,       \* two tile URLs and the cache paths computed for them
  page            \* the browser page: its elements, its viewer or upload
                  \* requests, and its pending timers

vars == <<originalDir, metadataCache, tileFiles, tileDirs, req, nCalls,
          lastSolo, probeLog, geo, leftovers, tempDir, ing, list, pathCall,
          page>>

IdleReq ==
  [pc |-> "idle", url |-> [id |-> <<>>, level |-> <<>>, tile |-> <<>>], imagePath |-> <<>>, meta |-> None,
   status |-> 0, body |-> "none", probes |-> 0, renders |-> 0,
   hadFile |-> FALSE, solo |-> FALSE, prev |-> None]

InFlight(q) == q.pc \notin {"idle", "done"}

\* probeLog: per imageId the number of probes invoked, and the imageIds whose
\* probe succeeded; once two calls overlap the log is dropped
NoProbes   == [overlap |-> FALSE, probes |-> <<>>, ok |-> {}]

ProbesOf(log, id) == IF id \in DOMAIN log.probes THEN log.probes[id] ELSE 0

\* the log after the step that took a request from q to q2
LogProbeInvoked(log, q, q2) ==
  IF log.overlap \/ q2.probes = q.probes THEN log
  ELSE [log EXCEPT !.probes =
          (ImageIdOf(q.url) :> ProbesOf(log, ImageIdOf(q.url)) + 1) @@ @]

LogProbeSucceeded(log, id) ==
  IF log.overlap THEN log ELSE [log EXCEPT !.ok = @ \cup {id}]

\* no call of the geometry functions
NoGeo == [phase |-> "none"]

Init ==
  /\ originalDir = InitialOriginals
  /\ metadataCache = <<>>
  /\ tileFiles = <<>>
  /\ tileDirs = {}
  /\ req = [r \in Reqs |-> IdleReq]
  /\ nCalls = 0
  /\ lastSolo = None
  /\ probeLog = NoProbes
  /\ geo = NoGeo
  /\ leftovers = {}
  /\ tempDir = <<>>
  /\ ing = <<>>
  /\ list = [pc |-> "none"]
  /\ pathCall = [phase |-> "none"]
  /\ page = [view |-> "none"]


----------------------------------------------------------------------------
(* Helpers of the actions *)

\* the codec's probe of a file: getImageMetadata (the fields the tile path uses)
getImageMetadata(imagePath) ==
  [width |-> originalDir[imagePath].width, height |-> originalDir[imagePath].height]

\* fs.access(tilePath) succeeds (lines 188-190)
\* a lookup that never finds the file
TileFileExists_Never(path, files) == FALSE

TileFileExists(path, files) == path \in DOMAIN files

\* files.find(f => f.startsWith(imageId)) returns f (line 173)
IsFirstMatch(dir, f, imageId) ==
  /\ StartsWith(f, imageId)
  /\ \A g \in DOMAIN dir : StartsWith(g, imageId) => dir[f].pos <= dir[g].pos

\* number of codec writers that have the tile file open
Writers(rq, path) ==
  Cardinality({r \in Reqs : rq[r].pc = "writing" /\ TilePathOf(rq[r].url) = path})

\* a catch block that starts the request over
Respond404_Retry(q) == [q EXCEPT !.pc = "access"]

\* the route's catch block: res.status(404).json({error: 'Tile not found'})
Respond404(q) == [q EXCEPT !.pc = "done", !.status = 404]

\* generateTileOnDemand returned tilePath; res.sendFile(tilePath) is next.
\* prev remembers the solo call this one follows, if any.
ReturnPath(q) == [q EXCEPT !.pc = "send", !.prev = lastSolo]

\* the history kept for the next call: this call, if it ran alone
SoloRecord(q, files) ==
  IF q.solo
    THEN [path    |-> TilePathOf(q.url),
          content |-> IF TilePathOf(q.url) \in DOMAIN files
                        THEN files[TilePathOf(q.url)] ELSE "none"]
    ELSE None

\* getCachedMetadata, entered with the resolved imagePath: a cached entry is
\* returned, otherwise the probe is started (lines 67-72); the tile lookup
\* fs.access(tilePath) follows a cached entry
EnterGetCachedMetadata_NoCache(q, imagePath) ==
  [q EXCEPT !.imagePath = imagePath, !.probes = @ + 1, !.pc = "probing"]

EnterGetCachedMetadata(q, imagePath) ==
  IF ImageIdOf(q.url) \in DOMAIN metadataCache
    THEN [q EXCEPT !.imagePath = imagePath,
                   !.meta = metadataCache[ImageIdOf(q.url)],
                   !.pc = "accessTile"]
    ELSE [q EXCEPT !.imagePath = imagePath,
                   !.probes = @ + 1,
                   !.pc = "probing"]

----------------------------------------------------------------------------
(* Actions: one per step between two awaits of the route handler *)

\* GET /api/image/:imageIdWithFiles/:level/:tile arrives (server.js 78-96):
\* a tile segment the regex rejects is answered 400, otherwise
\* generateTileOnDemand starts with fs.access(`${imageId}.tif`)
\* (a new request takes the first slot that is free: which slot holds a
\* request has no meaning)
Start(r, u) ==
  /\ ~InFlight(req[r])
  /\ \A o \in Reqs : o < r => InFlight(req[o])
  /\ nCalls < MaxCalls
  /\ nCalls' = nCalls + 1
  /\ LET alone == \A o \in Reqs \ {r} : ~InFlight(req[o])
         mine  == IF TileMatch(u.tile)
                    THEN [IdleReq EXCEPT
                            !.pc = "access", !.url = u, !.solo = alone,
                            !.hadFile = /\ TilePathOf(u) \in DOMAIN tileFiles
                                        /\ tileFiles[TilePathOf(u)] = "complete"]
                    ELSE [IdleReq EXCEPT !.pc = "done", !.url = u, !.status = 400]
     IN  req' = [o \in Reqs |->
                   IF o = r THEN mine ELSE [req[o] EXCEPT !.solo = FALSE]]
  /\ lastSolo' = IF TileMatch(u.tile) THEN lastSolo ELSE None
  /\ probeLog' = IF TileMatch(u.tile) /\ \E o \in Reqs \ {r} : InFlight(req[o])
                   THEN [overlap |-> TRUE, probes |-> <<>>, ok |-> {}]
                   ELSE probeLog
  /\ UNCHANGED <<page, leftovers, tempDir, ing, list, pathCall, geo, originalDir,
                 metadataCache, tileFiles, tileDirs>>

\* fs.access(imagePath) settles (lines 169-171): the .tif exists and
\* getCachedMetadata is entered, or the directory scan starts
AccessOriginal(r) ==
  /\ req[r].pc = "access"
  /\ LET tif == ImageIdOf(req[r].url) \o ExtTif
     IN  req' = [req EXCEPT ![r] =
                   IF tif \in DOMAIN originalDir
                     THEN EnterGetCachedMetadata(@, tif)
                     ELSE [@ EXCEPT !.pc = "readdir"]]
  /\ probeLog' = LogProbeInvoked(probeLog, req[r], req'[r])
  /\ UNCHANGED <<page, leftovers, tempDir, ing, list, pathCall, geo, originalDir,
                 metadataCache, tileFiles, tileDirs, nCalls, lastSolo>>

\* fs.readdir settles (lines 172-178): files.find takes the first name that
\* starts with imageId, in the order of the listing
ReaddirFound(r) ==
  /\ req[r].pc = "readdir"
  /\ \E f \in DOMAIN originalDir :
       /\ IsFirstMatch(originalDir, f, ImageIdOf(req[r].url))
       /\ req' = [req EXCEPT ![r] = EnterGetCachedMetadata(@, f)]
  /\ probeLog' = LogProbeInvoked(probeLog, req[r], req'[r])
  /\ UNCHANGED <<page, leftovers, tempDir, ing, list, pathCall, geo, originalDir,
                 metadataCache, tileFiles, tileDirs, nCalls, lastSolo>>

\* no name starts with imageId: throw new Error('Image not found')
ReaddirNotFound(r) ==
  /\ req[r].pc = "readdir"
  /\ \A f \in DOMAIN originalDir : ~StartsWith(f, ImageIdOf(req[r].url))
  /\ req' = [req EXCEPT ![r] = Respond404(@)]
  /\ lastSolo' = None
  /\ UNCHANGED <<page, leftovers, tempDir, ing, list, pathCall, geo, probeLog,
                 originalDir, metadataCache, tileFiles, tileDirs, nCalls>>

\* the probe settles (lines 72-74): the metadata is stored and returned
ProbeDone(r) ==
  /\ req[r].pc = "probing"
  /\ originalDir[req[r].imagePath].ok
  /\ LET m == getImageMetadata(req[r].imagePath)
     IN  /\ metadataCache' = (ImageIdOf(req[r].url) :> m) @@ metadataCache
         /\ req' = [req EXCEPT ![r] = [@ EXCEPT !.meta = m, !.pc = "accessTile"]]
  /\ probeLog' = LogProbeSucceeded(probeLog, ImageIdOf(req[r].url))
  /\ UNCHANGED <<page, leftovers, tempDir, ing, list, pathCall, geo, originalDir,
                 tileFiles, tileDirs, nCalls, lastSolo>>

\* a rejected probe that leaves an entry in the cache all the same
ProbeFail_Stores(r) ==
  /\ req[r].pc = "probing"
  /\ ~originalDir[req[r].imagePath].ok
  /\ metadataCache' = (ImageIdOf(req[r].url) :> getImageMetadata(req[r].imagePath))
                        @@ metadataCache
  /\ req' = [req EXCEPT ![r] = Respond404(@)]
  /\ lastSolo' = None
  /\ UNCHANGED <<page, leftovers, tempDir, ing, list, pathCall, geo, probeLog,
                 originalDir, tileFiles, tileDirs, nCalls>>

\* the probe rejects: the error reaches the route's catch block
ProbeFail(r) ==
  /\ req[r].pc = "probing"
  /\ ~originalDir[req[r].imagePath].ok
  /\ req' = [req EXCEPT ![r] = Respond404(@)]
  /\ lastSolo' = None
  /\ UNCHANGED <<page, leftovers, tempDir, ing, list, pathCall, geo, probeLog,
                 originalDir, metadataCache, tileFiles, tileDirs, nCalls>>

\* fs.access(tilePath) settles (lines 188-203): an existing file is returned;
\* otherwise generateTile runs up to its first await: it returns null for a
\* tile outside the bounds (and tilePath is returned all the same), or
\* starts fs.mkdir
AccessTile(r) ==
  /\ req[r].pc = "accessTile"
  /\ LET q    == req[r]
         plan == generateTilePlan(LevelOf(q.url), XOf(q.url), YOf(q.url),
                                  TileSize, q.meta.width, q.meta.height)
         ret  == TileFileExists(TilePathOf(q.url), tileFiles) \/ plan.skip
     IN  /\ req' = [req EXCEPT ![r] =
                      IF ret THEN ReturnPath(q) ELSE [q EXCEPT !.pc = "mkdir"]]
         /\ lastSolo' = IF ret THEN SoloRecord(q, tileFiles) ELSE lastSolo
  /\ UNCHANGED <<page, leftovers, tempDir, ing, list, pathCall, geo, probeLog,
                 originalDir, metadataCache, tileFiles, tileDirs, nCalls>>

\* fs.mkdir settles (lines 121-152): the directory exists; extract() and
\* resize() check their arguments and throw, or toFile starts the render
Mkdir(r) ==
  /\ req[r].pc = "mkdir"
  /\ tileDirs' = tileDirs \cup {TileDirOf(req[r].url)}
  /\ LET q    == req[r]
         plan == generateTilePlan(LevelOf(q.url), XOf(q.url), YOf(q.url),
                                  TileSize, q.meta.width, q.meta.height)
     IN  /\ req' = [req EXCEPT ![r] =
                      IF CodecArgsAccepted(plan)
                        THEN [q EXCEPT !.renders = @ + 1, !.pc = "render"]
                        ELSE Respond404(q)]
         /\ lastSolo' = IF CodecArgsAccepted(plan) THEN lastSolo ELSE None
  /\ UNCHANGED <<page, leftovers, tempDir, ing, list, pathCall, geo, probeLog,
                 originalDir, metadataCache, tileFiles, nCalls>>

\* the codec opens outputPath for writing: the file exists from now on and
\* is incomplete until the codec closes it
RenderOpen(r) ==
  /\ req[r].pc = "render"
  /\ tileFiles' = (TilePathOf(req[r].url) :> "partial") @@ tileFiles
  /\ leftovers' = leftovers \ {TilePathOf(req[r].url)}
  /\ req' = [req EXCEPT ![r] = [@ EXCEPT !.pc = "writing"]]
  /\ UNCHANGED <<page, tempDir, ing, list, pathCall, geo, probeLog, originalDir,
                 metadataCache, tileDirs, nCalls, lastSolo>>

\* toFile resolves (lines 152-154, 203): the file is complete unless another
\* render still has it open
RenderDone(r) ==
  /\ req[r].pc = "writing"
  /\ LET q    == req[r]
         path == TilePathOf(q.url)
         now  == IF Writers(req, path) > 1 THEN "partial" ELSE "complete"
     IN  /\ tileFiles' = (path :> now) @@ tileFiles
         /\ leftovers' = leftovers \ {path}
         /\ req' = [req EXCEPT ![r] = ReturnPath(q)]
         /\ lastSolo' = SoloRecord(q, tileFiles')
  /\ UNCHANGED <<page, tempDir, ing, list, pathCall, geo, probeLog, originalDir,
                 metadataCache, tileDirs, nCalls>>

\* toFile rejects, before or after the output was opened; whatever was
\* written stays on disk
RenderFail(r) ==
  /\ req[r].pc \in {"render", "writing"}
  /\ req' = [req EXCEPT ![r] = Respond404(@)]
  /\ leftovers' = IF req[r].pc = "writing"
                    THEN leftovers \cup {TilePathOf(req[r].url)} ELSE leftovers
  /\ lastSolo' = None
  /\ UNCHANGED <<page, tempDir, ing, list, pathCall, geo, probeLog, originalDir,
                 metadataCache, tileFiles, tileDirs, nCalls>>

\* res.sendFile(tilePath) (server.js 99, 123-126): the file is streamed with
\* status 200; a missing file is an error that sendFile passes to next(), and
\* the error middleware answers 500
SendFile(r) ==
  /\ req[r].pc = "send"
  /\ LET path == TilePathOf(req[r].url)
     IN  req' = [req EXCEPT ![r] =
                   IF path \in DOMAIN tileFiles
                     THEN [@ EXCEPT !.pc = "done", !.status = 200,
                                    !.body = tileFiles[path]]
                     ELSE [@ EXCEPT !.pc = "done", !.status = 500]]
  /\ UNCHANGED <<page, leftovers, tempDir, ing, list, pathCall, geo, probeLog,
                 originalDir, metadataCache, tileFiles, tileDirs, nCalls,
                 lastSolo>>

\* the process is restarted: new TileGenerator(uploadsDir) starts with an
\* empty metadataCache (line 22) over the same uploads directory; requests
\* in flight are gone and a file being written stays as it is
Restart ==
  /\ metadataCache' = <<>>
  /\ req' = [r \in Reqs |-> IdleReq]
  /\ lastSolo' = None
  /\ probeLog' = NoProbes
  /\ UNCHANGED <<page, leftovers, tempDir, ing, list, pathCall, geo, originalDir,
                 tileFiles, tileDirs, nCalls>>

Next ==
  \/ \E r \in Reqs, u \in Urls : Start(r, u)
  \/ \E r \in Reqs : AccessOriginal(r)
  \/ \E r \in Reqs : ReaddirFound(r)
  \/ \E r \in Reqs : ReaddirNotFound(r)
  \/ \E r \in Reqs : ProbeDone(r)
  \/ \E r \in Reqs : ProbeFail(r)
  \/ \E r \in Reqs : AccessTile(r)
  \/ \E r \in Reqs : Mkdir(r)
  \/ \E r \in Reqs : RenderOpen(r)
  \/ \E r \in Reqs : RenderDone(r)
  \/ \E r \in Reqs : RenderFail(r)
  \/ \E r \in Reqs : SendFile(r)
  \/ Restart

Spec == Init /\ [][Next]_vars


----------------------------------------------------------------------------
(* Vocabulary of the properties *)

\* a codec render (extract/resize/encode) of the request is in progress
Rendering(q) == q.pc \in {"render", "writing"}

\* the pyramid of an image as the data model defines it
MaxLevelOf(meta) == calculateLevels(meta.width, meta.height, TileSize) - 1
ScaledWidthAt(meta, level) == ScaledDim(meta.width, MaxLevelOf(meta) - level)
ScaledHeightAt(meta, level) == ScaledDim(meta.height, MaxLevelOf(meta) - level)

\* the coordinate of the URL has an integer level and no region
OutOfBounds(u, meta) ==
  /\ TileMatch(u.tile)
  /\ ~LevelOf(u).nan
  /\ \/ XOf(u) * TileSize >= ScaledWidthAt(meta, LevelOf(u).v)
     \/ YOf(u) * TileSize >= ScaledHeightAt(meta, LevelOf(u).v)

\* the coordinate of the URL is a tile of the pyramid
ValidCoordinate(u, meta) ==
  /\ TileMatch(u.tile)
  /\ ~LevelOf(u).nan
  /\ LevelOf(u).v \in 0..MaxLevelOf(meta)
  /\ XOf(u) * TileSize < ScaledWidthAt(meta, LevelOf(u).v)
  /\ YOf(u) * TileSize < ScaledHeightAt(meta, LevelOf(u).v)

\* the extensions an upload may have (server.js line 37)
AllowedExtensions == {ExtTif, <<".", "t", "i", "f", "f">>, ExtScn}

\* the level segment is a non-negative integer
WellFormedLevel(s) == Len(s) > 0 /\ AllDigits(s)

\* the URL has malformed coordinate syntax
MalformedCoordinate(u) == ~TileMatch(u.tile) \/ ~WellFormedLevel(u.level)

ContentAt(path) == IF path \in DOMAIN tileFiles THEN tileFiles[path] ELSE "none"

----------------------------------------------------------------------------
(* Properties *)

\* C1: with the default gate capacity, requests for distinct coordinates
\* never have two codec renders in progress at the same instant.  (That the
\* requests also complete is not part of this formula.)
C1_OneRenderAtATime ==
  \A r1 \in Reqs, r2 \in Reqs :
    (r1 # r2 /\ Rendering(req[r1]) /\ Rendering(req[r2]))
      => TilePathOf(req[r1].url) = TilePathOf(req[r2].url)

\* C2: of the requests for one coordinate that are in flight at the same
\* time, at most one invokes the codec render.
C2_DuplicatesCollapsed ==
  \A r1 \in Reqs, r2 \in Reqs :
    (/\ r1 # r2
     /\ InFlight(req[r1]) /\ InFlight(req[r2])
     /\ TileMatch(req[r1].url.tile) /\ TileMatch(req[r2].url.tile)
     /\ TilePathOf(req[r1].url) = TilePathOf(req[r2].url))
      => req[r1].renders + req[r2].renders <= 1

\* C3: at every instant a cache path holds no file or the complete tile,
\* never a partially written one.
C3_NoPartialFile ==
  \A p \in DOMAIN tileFiles : tileFiles[p] = "complete"

\* C4: of the requests for one imageId that are in flight at the same time,
\* at most one invokes the codec probe.
C4_SingleProbe ==
  \A r1 \in Reqs, r2 \in Reqs :
    (/\ r1 # r2
     /\ InFlight(req[r1]) /\ InFlight(req[r2])
     /\ ImageIdOf(req[r1].url) = ImageIdOf(req[r2].url))
      => req[r1].probes + req[r2].probes <= 1

\* C5: when a getTile call for a valid coordinate follows, with no other
\* request in between or alongside, a call of the same process that returned
\* the path of the same coordinate, it returns that path with the artifact
\* the first call left there, and invokes neither the probe nor the render.
C5_SecondCallIsHit ==
  \A r \in Reqs :
    (/\ req[r].pc = "send"
     /\ req[r].solo
     /\ req[r].prev # None
     /\ req[r].prev.path = TilePathOf(req[r].url)
     /\ ValidCoordinate(req[r].url, req[r].meta))
      => /\ req[r].probes = 0
         /\ req[r].renders = 0
         /\ ContentAt(TilePathOf(req[r].url)) = req[r].prev.content
         /\ ContentAt(TilePathOf(req[r].url)) # "none"

\* a second sequential call for a valid coordinate has returned, and the
\* artifact is the complete tile
C5_Witness ==
  \E r \in Reqs :
    /\ req[r].pc = "send"
    /\ req[r].solo
    /\ req[r].prev # None
    /\ req[r].prev.path = TilePathOf(req[r].url)
    /\ ValidCoordinate(req[r].url, req[r].meta)
    /\ ContentAt(TilePathOf(req[r].url)) = "complete"

\* C6: a request that finds the complete artifact at its cache path when it
\* arrives invokes neither the probe nor the render, whatever the metadata
\* cache holds.
C6_HitBypassesCodec ==
  \A r \in Reqs :
    req[r].hadFile => (req[r].probes = 0 /\ req[r].renders = 0)

\* C7: getTile never returns a tile path for a coordinate that has no region.
C7_OutOfBoundsFails ==
  \A r \in Reqs :
    (req[r].meta # None /\ OutOfBounds(req[r].url, req[r].meta))
      => req[r].pc # "send"

\* the request knows its metadata and its coordinate has no region
KnownOutOfBounds(q) ==
  InFlight(q) /\ q.meta # None /\ OutOfBounds(q.url, q.meta)

\* C8: no step of a request for an out-of-bounds coordinate invokes the
\* codec render, creates a file or creates a directory.
C8_OutOfBoundsLeavesDiskAlone ==
  [][\A r \in Reqs :
       (req'[r] # req[r] /\ KnownOutOfBounds(req[r]))
         => /\ tileFiles' = tileFiles
            /\ tileDirs' = tileDirs
            /\ req'[r].renders = 0
            /\ ~Rendering(req'[r])]_vars

\* a request for an out-of-bounds coordinate has been through generateTile
\* and was answered
C8_Witness ==
  \E r \in Reqs :
    /\ req[r].pc = "done"
    /\ req[r].meta # None
    /\ OutOfBounds(req[r].url, req[r].meta)
    /\ req[r].status # 0
    /\ TileDirOf(req[r].url) \notin tileDirs

\* C9: a well-formed tile request whose coordinate is out of bounds, or whose
\* imageId has no original, is answered 404.
C9_Answers404 ==
  \A r \in Reqs :
    (/\ req[r].pc = "done"
     /\ ~MalformedCoordinate(req[r].url)
     /\ \/ ~\E ext \in AllowedExtensions :
               (ImageIdOf(req[r].url) \o ext) \in DOMAIN originalDir
        \/ (req[r].meta # None /\ OutOfBounds(req[r].url, req[r].meta)))
      => req[r].status = 404

\* C10: a request with malformed coordinate syntax is answered 400 and never
\* enters getTile.
C10_Malformed400 ==
  \A r \in Reqs :
    (req[r].pc # "idle" /\ MalformedCoordinate(req[r].url))
      => (req[r].pc = "done" /\ req[r].status = 400)


----------------------------------------------------------------------------
(* Gate slots *)

\* the request holds a slot of the concurrency gate: generateTile calls the
\* codec without acquiring anything (lines 130-152), so no step holds one
HoldsGateSlot(q) == FALSE

\* C11: at every instant the number of gate slots held equals the number of
\* codec renders in progress: a slot is held for every render and released
\* on every exit path of it.
C11_SlotsMatchRenders ==
  Cardinality({r \in Reqs : HoldsGateSlot(req[r])})
    = Cardinality({r \in Reqs : Rendering(req[r])})


----------------------------------------------------------------------------
(* One process lifetime with uploads arriving: the image store *)

\* the files clients upload: name under uploads/original -> content
Uploads ==
  (IdAC \o ExtTif :> [width |-> 600, height |-> 300, ok |-> TRUE])

\* processUpload moves the uploaded file into uploads/original (lines
\* 220-222), after its own probe of it, which does not go through
\* metadataCache (line 217); the directory lists the new name at a position
\* of its own choosing
UploadStored(f) ==
  /\ f \notin DOMAIN originalDir
  /\ \E k \in 1..(Cardinality(DOMAIN originalDir) + 1) :
       originalDir' =
         (f :> [width |-> Uploads[f].width, height |-> Uploads[f].height,
                ok |-> Uploads[f].ok, pos |-> k])
         @@ [g \in DOMAIN originalDir |->
               [originalDir[g] EXCEPT !.pos = IF @ >= k THEN @ + 1 ELSE @]]
  /\ UNCHANGED <<page, leftovers, tempDir, ing, list, pathCall, geo, probeLog,
                 metadataCache, tileFiles, tileDirs, req, nCalls, lastSolo>>

InitStore ==
  /\ originalDir =
       (IdAB \o ExtScn :> [width |-> 300, height |-> 300, ok |-> TRUE,
                           pos |-> 1])
  /\ metadataCache = <<>>
  /\ tileFiles = <<>>
  /\ tileDirs = {}
  /\ req = [r \in Reqs |-> IdleReq]
  /\ nCalls = 0
  /\ lastSolo = None
  /\ probeLog = NoProbes
  /\ geo = NoGeo
  /\ leftovers = {}
  /\ tempDir = <<>>
  /\ ing = <<>>
  /\ list = [pc |-> "none"]
  /\ pathCall = [phase |-> "none"]
  /\ page = [view |-> "none"]

NextStore ==
  \/ \E r \in Reqs, u \in StoreUrls : Start(r, u)
  \/ \E r \in Reqs : AccessOriginal(r)
  \/ \E r \in Reqs : ReaddirFound(r)
  \/ \E r \in Reqs : ReaddirNotFound(r)
  \/ \E r \in Reqs : ProbeDone(r)
  \/ \E r \in Reqs : AccessTile(r)
  \/ \E r \in Reqs : Mkdir(r)
  \/ \E r \in Reqs : RenderOpen(r)
  \/ \E r \in Reqs : RenderDone(r)
  \/ \E r \in Reqs : RenderFail(r)
  \/ \E r \in Reqs : SendFile(r)
  \/ \E f \in DOMAIN Uploads : UploadStored(f)

SpecStore == InitStore /\ [][NextStore]_vars

\* C12: once metadataCache holds an entry for an imageId, no step of the
\* process removes the entry or replaces its value.
C12_CacheEntriesStable ==
  [][\A id \in DOMAIN metadataCache :
       /\ id \in DOMAIN metadataCache'
       /\ metadataCache'[id] = metadataCache[id]]_vars

\* C14: the original that generateTileOnDemand resolves for an imageId is
\* named {imageId}.{ext}; an imageId with no such file is not resolved.
C14_ResolveExactName ==
  \A r \in Reqs :
    req[r].imagePath # <<>>
      => \E ext \in AllowedExtensions :
           req[r].imagePath = ImageIdOf(req[r].url) \o ext

\* C20: a request whose level is an integer outside 0..maxLevel invokes no
\* codec render and no artifact exists at its cache path.
C20_OnlyPyramidLevels ==
  \A r \in Reqs :
    (/\ req[r].meta # None
     /\ ~LevelOf(req[r].url).nan
     /\ LevelOf(req[r].url).v \notin 0..MaxLevelOf(req[r].meta))
      => /\ req[r].renders = 0
         /\ TilePathOf(req[r].url) \notin DOMAIN tileFiles

----------------------------------------------------------------------------
(* The metadata cache under calls that do not overlap *)

\* C13 (as stated): in a sequence of non-overlapping getTile calls the
\* probe is invoked at most once for every imageId
C13_AtMostOneProbe ==
  ~probeLog.overlap =>
    \A id \in DOMAIN probeLog.probes : probeLog.probes[id] <= 1

\* C13 (amended): in a sequence of non-overlapping getTile calls, once a
\* probe of an imageId has succeeded no later call probes that imageId: it is
\* answered from the stored entry. A probe that fails stores nothing, and
\* the next call for that imageId probes again.
C13_NoProbeAfterSuccess ==
  ~probeLog.overlap =>
    \A r \in Reqs :
      req[r].pc = "probing" => ImageIdOf(req[r].url) \notin probeLog.ok

\* a second call in a row for an image whose probe succeeded has its
\* metadata without having probed
C13_Witness ==
  /\ ~probeLog.overlap
  /\ nCalls = 2
  /\ \E r \in Reqs :
       /\ req[r].pc = "accessTile"
       /\ ImageIdOf(req[r].url) \in probeLog.ok
       /\ ProbesOf(probeLog, ImageIdOf(req[r].url)) = 1
       /\ req[r].probes = 0
       /\ req[r].meta = metadataCache[ImageIdOf(req[r].url)]

----------------------------------------------------------------------------
(* The pyramid geometry: calculateLevels and generateTile applied to         *)
(* arguments drawn from bounded sets                                         *)

MaxGeoLevel == 8
MaxGeoTile  == 2

GeoArgs ==
  [phase : {"args"},
   width : {1, 100, 255, 256, 257, 512, 513, 601, 1024, 10000},
   height : {1, 128, 256, 300, 512, 8000},
   tileSize : {128, 256, 300},
   level : (0 - 1)..MaxGeoLevel,
   x : 0..MaxGeoTile, y : 0..MaxGeoTile]

InitGeom ==
  /\ originalDir = InitialOriginals
  /\ metadataCache = <<>>
  /\ tileFiles = <<>>
  /\ tileDirs = {}
  /\ req = [r \in Reqs |-> IdleReq]
  /\ nCalls = 0
  /\ lastSolo = None
  /\ probeLog = NoProbes
  /\ geo \in GeoArgs
  /\ leftovers = {}
  /\ tempDir = <<>>
  /\ ing = <<>>
  /\ list = [pc |-> "none"]
  /\ pathCall = [phase |-> "none"]
  /\ page = [view |-> "none"]

\* a client that takes the number of levels for the top level
loadImageLevels_OneMore(width, height) ==
  LET tileSize == 256
      maxLevel == CeilLog2Ratio(Max(width, height), tileSize) + 1
  IN  [maxLevel |-> maxLevel,
       levels   |-> [k \in 1..(maxLevel + 1) |->
                       [width      |-> CeilDiv(width, Pow2(maxLevel - (k - 1))),
                        height     |-> CeilDiv(height, Pow2(maxLevel - (k - 1))),
                        tileWidth  |-> tileSize,
                        tileHeight |-> tileSize]]]

\* loadImage of the browser client (part_000 lines 387-402): maxLevel and
\* the levels array handed to the tile source, levels[k] being the entry
\* of level k - 1; the array is empty when maxLevel is negative
loadImageLevels(width, height) ==
  LET tileSize == 256
      maxLevel == CeilLog2Ratio(Max(width, height), tileSize)
  IN  [maxLevel |-> maxLevel,
       levels   |-> [k \in 1..(maxLevel + 1) |->
                       [width      |-> CeilDiv(width, Pow2(maxLevel - (k - 1))),
                        height     |-> CeilDiv(height, Pow2(maxLevel - (k - 1))),
                        tileWidth  |-> tileSize,
                        tileHeight |-> tileSize]]]

\* line 102: generateTile asks for the number of levels
CalculateLevels ==
  /\ geo.phase = "args"
  /\ geo' = [phase |-> "levels",
             levels |-> calculateLevels(geo.width, geo.height, geo.tileSize)]
              @@ geo
  /\ UNCHANGED <<page, tempDir, ing, list, pathCall, leftovers, originalDir,
                 metadataCache, tileFiles, tileDirs, req, nCalls, lastSolo,
                 probeLog>>

\* lines 103-146: generateTile decides whether the tile exists and computes
\* the arguments of extract and resize
GenerateTile ==
  /\ geo.phase = "levels"
  /\ geo' = [phase |-> "plan",
             plan |-> TilePlan(geo.level, geo.x, geo.y, geo.tileSize,
                               geo.width, geo.height)]
              @@ geo
  /\ UNCHANGED <<page, tempDir, ing, list, pathCall, leftovers, originalDir,
                 metadataCache, tileFiles, tileDirs, req, nCalls, lastSolo,
                 probeLog>>

\* the client opens the image whose tile was planned: loadImage builds its
\* levels array from the width and height of the image
LoadImage ==
  /\ geo.phase = "plan"
  /\ geo' = [phase |-> "client",
             client |-> loadImageLevels(geo.width, geo.height)]
              @@ geo
  /\ UNCHANGED <<page, tempDir, ing, list, pathCall, leftovers, originalDir,
                 metadataCache, tileFiles, tileDirs, req, nCalls, lastSolo,
                 probeLog>>

NextGeom == CalculateLevels \/ GenerateTile \/ LoadImage

SpecGeom == InitGeom /\ [][NextGeom]_vars

\* the mathematics the geometry is stated in, for positive integers m and t
LogRange == (0 - 15)..15
\* 2^k >= m / t
Pow2AtLeast(k, m, t) == IF k >= 0 THEN t * Pow2(k) >= m ELSE t >= m * Pow2(0 - k)
\* 2^k <= m / t
Pow2AtMost(k, m, t)  == IF k >= 0 THEN t * Pow2(k) <= m ELSE t <= m * Pow2(0 - k)
\* ceil(log2(m / t)) and floor(log2(m / t))
CeilLog2Of(m, t)  == CHOOSE k \in LogRange : Pow2AtLeast(k, m, t) /\ ~Pow2AtLeast(k - 1, m, t)
FloorLog2Of(m, t) == CHOOSE k \in LogRange : Pow2AtMost(k, m, t) /\ ~Pow2AtMost(k + 1, m, t)
\* ceil(a / b)
CeilOf(a, b) == 0 - ((0 - a) \div b)

GeoMaxDimension == Max(geo.width, geo.height)

\* C15 (as stated): calculateLevels(width, height, tileSize) equals
\* floor(log2(max(width,height)/tileSize)) + 2 for every positive width,
\* height and tileSize
C15_FloorPlusTwo ==
  geo.phase \in {"levels", "plan"} =>
    geo.levels = FloorLog2Of(GeoMaxDimension, geo.tileSize) + 2

\* C15 (amended): calculateLevels(width, height, tileSize) equals
\* ceil(log2(max(width,height)/tileSize)) + 1 for every positive width,
\* height and tileSize; that is floor(log2(max(width,height)/tileSize)) + 2
\* unless max(width,height)/tileSize is a power of two, where it is one less
C15_CeilPlusOne ==
  geo.phase \in {"levels", "plan"} =>
    /\ geo.levels = CeilLog2Of(GeoMaxDimension, geo.tileSize) + 1
    /\ geo.levels = FloorLog2Of(GeoMaxDimension, geo.tileSize)
                      + (IF CeilLog2Of(GeoMaxDimension, geo.tileSize)
                            = FloorLog2Of(GeoMaxDimension, geo.tileSize)
                          THEN 1 ELSE 2)

\* an image of exactly one tile has one level
C15_Witness ==
  /\ geo.phase = "levels"
  /\ geo.width = 256 /\ geo.height = 256 /\ geo.tileSize = 256
  /\ geo.levels = 1

\* the top level of the pyramid as generateTile has it, calculateLevels - 1
GeoMaxLevel == geo.levels - 1

\* the level asked for is one of 0..maxLevel
GeoLevelInPyramid == geo.level \in 0..GeoMaxLevel

\* C16: with maxLevel = calculateLevels(w,h,T) - 1 = ceil(log2(max(w,h)/T)),
\* generateTile uses scale(level) = 2^(maxLevel - level) for every level in
\* 0..maxLevel; scale(maxLevel) = 1 and the scaled width and height at
\* maxLevel are the original ones; for 10000x8000 with T = 256 maxLevel is 6
\* and scale(0) is 64
C16_ScaleOfLevel ==
  (geo.phase = "plan" /\ GeoLevelInPyramid) =>
    /\ GeoMaxLevel = CeilLog2Of(GeoMaxDimension, geo.tileSize)
    /\ geo.plan.scaleExp = GeoMaxLevel - geo.level
    /\ geo.plan.scaled.width = CeilOf(geo.width, Pow2(GeoMaxLevel - geo.level))
    /\ geo.plan.scaled.height = CeilOf(geo.height, Pow2(GeoMaxLevel - geo.level))
    /\ geo.level = GeoMaxLevel =>
         /\ Pow2(geo.plan.scaleExp) = 1
         /\ geo.plan.scaled = [width |-> geo.width, height |-> geo.height]
    /\ (geo.width = 10000 /\ geo.height = 8000 /\ geo.tileSize = 256) =>
         /\ GeoMaxLevel = 6
         /\ geo.level = 0 => Pow2(geo.plan.scaleExp) = 64

\* level 0 of the 10000x8000 image is planned at scale 64
C16_Witness ==
  /\ geo.phase = "plan"
  /\ geo.width = 10000 /\ geo.height = 8000 /\ geo.tileSize = 256
  /\ geo.level = 0
  /\ GeoMaxLevel = 6
  /\ Pow2(geo.plan.scaleExp) = 64

\* scaledDim(level) = ceil(dim / scale(level)) with scale(level) =
\* 2^(maxLevel - level), a fraction above the top level
ScaledDimOf(dim, maxLevel, level) ==
  IF level <= maxLevel THEN CeilOf(dim, Pow2(maxLevel - level))
                       ELSE dim * Pow2(level - maxLevel)

GeoScaledWidth  == ScaledDimOf(geo.width, GeoMaxLevel, geo.level)
GeoScaledHeight == ScaledDimOf(geo.height, GeoMaxLevel, geo.level)

\* the coordinate asked for is valid on its level
GeoValidCoordinate ==
  /\ geo.x * geo.tileSize < GeoScaledWidth
  /\ geo.y * geo.tileSize < GeoScaledHeight

\* C17: generateTile returns null exactly when x*tileSize >= scaledWidth(level)
\* or y*tileSize >= scaledHeight(level), with scaledDim(level) =
\* ceil(dim / scale(level)); for every other (level, x, y) with level in
\* 0..maxLevel it proceeds to render; for 10000x8000 level 0 is 157x125 and
\* tile (1,0) does not exist
C17_NullIffOutside ==
  geo.phase = "plan" =>
    /\ geo.plan.skip <=> ~GeoValidCoordinate
    /\ (GeoLevelInPyramid /\ GeoValidCoordinate)
         => /\ ~geo.plan.skip
            /\ CodecArgsAccepted([nanArgs |-> FALSE] @@ geo.plan)
    /\ (/\ geo.width = 10000 /\ geo.height = 8000 /\ geo.tileSize = 256
        /\ geo.level = 0) =>
         /\ geo.plan.scaled = [width |-> 157, height |-> 125]
         /\ (geo.x = 1 /\ geo.y = 0) => geo.plan.skip

\* tile (1,0) of level 0 of the 10000x8000 image is reported as no region
C17_Witness ==
  /\ geo.phase = "plan"
  /\ geo.width = 10000 /\ geo.height = 8000 /\ geo.tileSize = 256
  /\ geo.level = 0 /\ geo.x = 1 /\ geo.y = 0
  /\ geo.plan.skip

\* C18: for every valid tile coordinate the scaled-level region has
\* left = x*tileSize, top = y*tileSize, w = min(tileSize, scaledWidth-left),
\* h = min(tileSize, scaledHeight-top), so 1 <= w <= tileSize and
\* 1 <= h <= tileSize; w and h are the output size passed to resize
C18_ScaledRegion ==
  (geo.phase = "plan" /\ GeoValidCoordinate) =>
    LET left == geo.x * geo.tileSize
        top  == geo.y * geo.tileSize
        w    == IF geo.tileSize <= GeoScaledWidth - left
                  THEN geo.tileSize ELSE GeoScaledWidth - left
        h    == IF geo.tileSize <= GeoScaledHeight - top
                  THEN geo.tileSize ELSE GeoScaledHeight - top
    IN  /\ geo.plan.region = [left |-> left, top |-> top, width |-> w, height |-> h]
        /\ 1 <= geo.plan.region.width /\ geo.plan.region.width <= geo.tileSize
        /\ 1 <= geo.plan.region.height /\ geo.plan.region.height <= geo.tileSize
        /\ geo.plan.resize = [width |-> geo.plan.region.width,
                              height |-> geo.plan.region.height]

\* an edge tile narrower and lower than a full tile: tile (2,1) of the top
\* level of a 601x300 image
C18_Witness ==
  /\ geo.phase = "plan"
  /\ geo.width = 601 /\ geo.height = 300 /\ geo.tileSize = 256
  /\ geo.level = GeoMaxLevel /\ geo.x = 2 /\ geo.y = 1
  /\ ~geo.plan.skip
  /\ geo.plan.resize = [width |-> 89, height |-> 44]

\* C19: for every image size and every valid tile coordinate at every level
\* in 0..maxLevel, the region handed to extract lies inside the source image
\* and is non-empty; at maxLevel, tile (0,0) of an image at least tileSize
\* wide and high is exactly {left: 0, top: 0, w: tileSize, h: tileSize}
C19_ExtractInsideSource ==
  (geo.phase = "plan" /\ GeoLevelInPyramid /\ GeoValidCoordinate) =>
    /\ 0 <= geo.plan.extract.left /\ 0 <= geo.plan.extract.top
    /\ geo.plan.extract.width >= 1 /\ geo.plan.extract.height >= 1
    /\ geo.plan.extract.left + geo.plan.extract.width <= geo.width
    /\ geo.plan.extract.top + geo.plan.extract.height <= geo.height
    /\ (/\ geo.level = GeoMaxLevel /\ geo.x = 0 /\ geo.y = 0
        /\ geo.width >= geo.tileSize /\ geo.height >= geo.tileSize) =>
         geo.plan.extract = [left |-> 0, top |-> 0,
                             width |-> geo.tileSize, height |-> geo.tileSize]

\* the last tile of level 1 of the 10000x8000 image cut in tiles of 128
\* (scale 64, scaled size 157x125): 29 columns of the
\* scaled level are 1856 source columns, cut to the 10000 - 8192 = 1808
\* that exist
C19_Witness ==
  /\ geo.phase = "plan"
  /\ geo.width = 10000 /\ geo.height = 8000 /\ geo.tileSize = 128
  /\ geo.level = 1 /\ geo.x = 1 /\ geo.y = 0
  /\ ~geo.plan.skip
  /\ geo.plan.extract = [left |-> 8192, top |-> 0, width |-> 1808, height |-> 8000]

----------------------------------------------------------------------------
(* Failed renders, termination and the life of a tile file *)

\* C27: after a generation fails in the codec the failure is reported
\* without a retry (one render for the request), and a later identical
\* request starts at the cache check and generates again: what the failed
\* attempt left at the cache path is not served as a hit
C27_FailureThenRetry ==
  /\ [](\A r \in Reqs : req[r].renders <= 1)
  /\ [][\A r \in Reqs :
         req'[r] # req[r] =>
           /\ (Rendering(req[r]) /\ req'[r].pc = "done") => req'[r].status = 404
           /\ (req[r].pc = "accessTile" /\ TilePathOf(req[r].url) \in leftovers)
                => req'[r].pc = "mkdir"]_vars

\* the steps of the request in slot r after its arrival
Step(r) ==
  \/ AccessOriginal(r) \/ ReaddirFound(r) \/ ReaddirNotFound(r)
  \/ ProbeDone(r) \/ ProbeFail(r) \/ AccessTile(r) \/ Mkdir(r)
  \/ RenderOpen(r) \/ RenderDone(r) \/ RenderFail(r) \/ SendFile(r)

\* the server while its process lives; the URLs requested of it are the
\* .jpg URLs, one for every way a request can end
NextLive ==
  \/ \E r \in Reqs :
       \E u \in {v \in Urls : /\ TileMatch(v.tile)
                              /\ v.tile[Len(v.tile)] = "g"
                              /\ v.tile[Len(v.tile) - 1] = "p"} : Start(r, u)
  \/ \E r \in Reqs : Step(r)

\* a request in flight always has a step to take
StepEnabledInFlight ==
  \A r \in Reqs : InFlight(req[r]) <=> ENABLED <<Step(r)>>_vars

\* Every file-system call and codec call settles, and the event loop runs
\* every continuation that is ready: weak fairness of the steps of each
\* request.  WF_vars(Step(r)) is
\*   []<>(~ENABLED <<Step(r)>>_vars) \/ []<><<Step(r)>>_vars
\* and is written out with InFlight(req[r]) for ENABLED <<Step(r)>>_vars,
\* its equal by StepEnabledInFlight.
SpecLive ==
  /\ Init
  /\ [][NextLive]_vars
  /\ \A r \in Reqs : []<>(~InFlight(req[r])) \/ []<><<Step(r)>>_vars

\* C28: every getTile request eventually reaches a terminal state, Served or
\* Error, if every codec and file-system call terminates and scheduling is
\* fair, whatever other requests are in flight
C28_EveryRequestEnds ==
  \A r \in Reqs : InFlight(req[r]) ~> req[r].pc = "done"

\* a request has been answered while another one is still in flight
C28_Witness ==
  \E r, o \in Reqs :
    /\ req[r].pc = "done" /\ req[r].status \in {200, 404, 500}
    /\ InFlight(req[o])

\* C29: the tile cache is append-only: once a complete artifact exists at a
\* cache path nothing deletes, truncates or rewrites it, so each path is
\* written at most once
C29_AppendOnly ==
  [][tileFiles' # tileFiles =>
       \A p \in DOMAIN tileFiles :
         tileFiles[p] = "complete" =>
           p \in DOMAIN tileFiles' /\ tileFiles'[p] = "complete"]_vars

----------------------------------------------------------------------------
(* Uploads and listings: processUpload and listImages *)

MaxUploads == 2
MaxLists   == 2

Ingests == 1..MaxUploads

\* what the codec finds in a file
Tiff300   == [width |-> 300, height |-> 300, format |-> "tiff", ok |-> TRUE]
NotAnImage == [width |-> 0, height |-> 0, format |-> "none", ok |-> FALSE]

\* the files under uploads/original when the first request arrives, in the
\* order the directory lists them: the unreadable c.tif comes before or
\* after the readable ab.scn, and .h is a hidden file
IngestOriginals ==
  { (IdAB \o ExtScn :> (Tiff300 @@ [pos |-> p[1]])) @@
    (IdC \o ExtTif  :> (NotAnImage @@ [pos |-> p[2]])) @@
    (<<".", "h">>   :> (NotAnImage @@ [pos |-> p[3]])) :
      p \in {<<3, 2, 1>>, <<1, 3, 2>>} }

\* the calls processUpload(imageId, originalPath): the imageId, the
\* extension of the temporary file and what the file holds
UploadCalls ==
  { [imageId |-> IdA, ext |-> ExtTif,
     content |-> [width |-> 600, height |-> 300, format |-> "tiff", ok |-> TRUE]],
    [imageId |-> IdA, ext |-> ExtTif, content |-> Tiff300],
    [imageId |-> IdB, ext |-> ExtTif, content |-> Tiff300],
    [imageId |-> IdB, ext |-> ExtTif, content |-> NotAnImage] }

\* a listing: the names still to visit, the names readdir returned, the
\* records pushed, and for the properties the files whose probe succeeded
\* and failed in this call, the files the calls before it probed, and
\* the descriptors processUpload had returned when the call started
InitIngest ==
  /\ originalDir \in IngestOriginals
  /\ metadataCache = <<>>
  /\ tileFiles = <<>>
  /\ tileDirs = {}
  /\ req = [r \in Reqs |-> IdleReq]
  /\ nCalls = 0
  /\ lastSolo = None
  /\ probeLog = NoProbes
  /\ geo = NoGeo
  /\ leftovers = {}
  /\ tempDir = <<>>
  /\ ing = [i \in Ingests |->
              [pc |-> "idle", call |-> None, metadata |-> None, status |-> 0,
               info |-> None, snapshot |-> {}, moved |-> FALSE]]
  /\ list = [pc |-> "idle", files |-> <<>>, snapshot |-> <<>>,
             images |-> <<>>, probed |-> {}, failed |-> {}, before |-> {},
             known |-> {}, n |-> 0]
  /\ pathCall = [phase |-> "none"]
  /\ page = [view |-> "none"]

\* what uploads and listings do not touch
tileVars ==
  <<metadataCache, tileFiles, tileDirs, req, nCalls, lastSolo, probeLog, geo,
    leftovers, pathCall>>

\* getImageMetadata (lines 39-57): the fields the callers use
ProbeFile(content) ==
  [width |-> content.width, height |-> content.height, format |-> content.format]

\* a function without the argument x
Without(f, x) == [y \in DOMAIN f \ {x} |-> f[y]]

\* the directory after fs.rename put content at name (line 222): an
\* existing name is replaced where it stands, a new name is listed at
\* position k
Renamed(dir, name, content, k) ==
  IF name \in DOMAIN dir
    THEN [dir EXCEPT ![name] = content @@ [pos |-> dir[name].pos]]
    ELSE (name :> (content @@ [pos |-> k])) @@
         [f \in DOMAIN dir |->
            [dir[f] EXCEPT !.pos = IF @ >= k THEN @ + 1 ELSE @]]

\* a catch block that swallows the error: the upload goes on to its move
UploadFailed_GoesOn(q) == [q EXCEPT !.pc = "rename"]

\* the catch block of POST /api/upload (server.js 66-69)
UploadFailed(q) == [q EXCEPT !.pc = "done", !.status = 500]

\* the temp cleanup is over (lines 225-249): processUpload returns its
\* descriptor and the route answers with it
CleanupGoesOn(q, rest) ==
  IF rest # {}
    THEN [q EXCEPT !.pc = "clean", !.snapshot = rest]
    ELSE [q EXCEPT !.pc = "done", !.status = 200, !.snapshot = {},
                   !.info = [id |-> q.call.imageId,
                             width |-> q.metadata.width,
                             height |-> q.metadata.height,
                             levels |-> calculateLevels(q.metadata.width,
                                                        q.metadata.height, 256),
                             originalFormat |-> q.metadata.format]]

\* POST /api/upload arrives with a file (server.js 52-59): multer has
\* stored it under uploads/temp with a name of its own, here the number of
\* the call, and processUpload starts with its probe of it (line 217).
\* (A request without a file is answered 400 at once and changes nothing.)
UploadArrives(i, c) ==
  /\ ing[i].pc = "idle"
  /\ \A j \in Ingests : j < i => ing[j].pc # "idle"
  /\ tempDir' = (i :> c.content) @@ tempDir
  /\ ing' = [ing EXCEPT ![i] = [@ EXCEPT !.pc = "probing", !.call = c]]
  /\ UNCHANGED <<page, originalDir, list, tileVars>>

\* the temporary file is there and the codec reads it
TempReadable(i) == i \in DOMAIN tempDir /\ tempDir[i].ok

\* the probe of the temporary file resolves (line 217); fs.rename is next
IngestProbeDone(i) ==
  /\ ing[i].pc = "probing"
  /\ TempReadable(i)
  /\ ing' = [ing EXCEPT ![i] = [@ EXCEPT !.pc = "rename",
                                         !.metadata = ProbeFile(tempDir[i])]]
  /\ UNCHANGED <<page, originalDir, tempDir, list, tileVars>>

\* the probe rejects, the file being no image or no longer there: the error
\* leaves processUpload at line 217 and the route answers 500
IngestProbeFail(i) ==
  /\ ing[i].pc = "probing"
  /\ ~TempReadable(i)
  /\ ing' = [ing EXCEPT ![i] = UploadFailed(@)]
  /\ UNCHANGED <<page, originalDir, tempDir, list, tileVars>>

\* fs.rename(originalPath, newPath) settles (lines 220-222): the file moves
\* to uploads/original/{imageId}{ext}, replacing a file of that name, and
\* the cleanup starts with fs.readdir(tempDir); or the temporary file is gone
\* and the rename rejects.  (The directory lists a new name first or last.)
IngestRename(i) ==
  /\ ing[i].pc = "rename"
  /\ IF i \in DOMAIN tempDir
       THEN /\ \E k \in {1, Cardinality(DOMAIN originalDir) + 1} :
                 originalDir' = Renamed(originalDir,
                                        ing[i].call.imageId \o ing[i].call.ext,
                                        tempDir[i], k)
            /\ tempDir' = Without(tempDir, i)
            /\ ing' = [ing EXCEPT ![i] = [@ EXCEPT !.pc = "readdirTemp",
                                                   !.moved = TRUE]]
       ELSE /\ ing' = [ing EXCEPT ![i] = UploadFailed(@)]
            /\ UNCHANGED <<page, originalDir, tempDir>>
  /\ UNCHANGED <<page, list, tileVars>>

\* fs.readdir(tempDir) settles (lines 226-228): the loop will visit the
\* names it returned, in the order the directory gave them
IngestReaddirTemp(i) ==
  /\ ing[i].pc = "readdirTemp"
  /\ ing' = [ing EXCEPT ![i] = CleanupGoesOn(@, DOMAIN tempDir)]
  /\ UNCHANGED <<page, originalDir, tempDir, list, tileVars>>

\* one round of the cleanup loop (lines 228-233), fs.stat and fs.unlink of
\* the next name f: the file is deleted, whichever upload it belongs to; if
\* it is gone already the call rejects and the catch block ends the cleanup
IngestCleanFile(i, f) ==
  /\ ing[i].pc = "clean"
  /\ f \in ing[i].snapshot
  /\ IF f \in DOMAIN tempDir
       THEN /\ tempDir' = Without(tempDir, f)
            /\ ing' = [ing EXCEPT ![i] = CleanupGoesOn(@, @.snapshot \ {f})]
       ELSE /\ tempDir' = tempDir
            /\ ing' = [ing EXCEPT ![i] = CleanupGoesOn(@, {})]
  /\ UNCHANGED <<page, originalDir, list, tileVars>>

\* fs.readdir(originalDir): the names in the order of the directory
NamesInOrder(dir) ==
  [k \in 1..Cardinality(DOMAIN dir) |-> CHOOSE f \in DOMAIN dir : dir[f].pos = k]

\* file.startsWith('.') (line 263)
IsHidden(f) == StartsWith(f, <<".">>)

\* path.parse(file).name (line 266): the name without its last extension
RECURSIVE LastDot(_, _)
LastDot(f, k) == IF k <= 1 THEN 0 ELSE IF f[k] = "." THEN k ELSE LastDot(f, k - 1)

FileStem(f) ==
  IF LastDot(f, Len(f)) = 0 THEN f ELSE SubSeq(f, 1, LastDot(f, Len(f)) - 1)

\* the loop skips hidden names (line 263)
RECURSIVE SkipHidden(_)
SkipHidden(files) ==
  IF files # <<>> /\ IsHidden(Head(files)) THEN SkipHidden(Tail(files)) ELSE files

\* a listing that stops at the first file it cannot read
ListGoesOn_Abort(l, rest) ==
  IF SkipHidden(rest) = <<>> \/ l.failed # {}
    THEN [l EXCEPT !.pc = "done", !.files = <<>>]
    ELSE [l EXCEPT !.pc = "probing", !.files = SkipHidden(rest)]

\* the loop goes on with the names left, or listImages returns its records
\* and the route answers with them
ListGoesOn(l, rest) ==
  IF SkipHidden(rest) = <<>>
    THEN [l EXCEPT !.pc = "done", !.files = <<>>]
    ELSE [l EXCEPT !.pc = "probing", !.files = SkipHidden(rest)]


\* GET /api/images arrives (server.js 107-109): listImages starts with
\* fs.readdir(originalDir) (line 258)
ListStart ==
  /\ list.pc \in {"idle", "done"}
  /\ list.n < MaxLists
  /\ list' = [list EXCEPT !.pc = "readdir", !.n = @ + 1, !.images = <<>>,
                          !.probed = {}, !.failed = {}, !.snapshot = <<>>,
                          !.before = @ \cup list.probed,
                          !.known = {ing[i].info :
                                       i \in {j \in Ingests : ing[j].status = 200}}]
  /\ UNCHANGED <<page, originalDir, tempDir, ing, tileVars>>

\* fs.readdir settles (lines 258-267): the loop starts on the names it
\* returned with the probe of the first one that is not hidden
ListReaddir ==
  /\ list.pc = "readdir"
  /\ list' = ListGoesOn([list EXCEPT !.snapshot = NamesInOrder(originalDir)],
                        NamesInOrder(originalDir))
  /\ UNCHANGED <<page, originalDir, tempDir, ing, tileVars>>

\* getImageMetadata(imagePath) resolves and then fs.stat (lines 268-277):
\* the record is pushed.  No original is ever removed, so the stat of a
\* listed file resolves; only uploadedAt, which is not modelled, comes from
\* it.
ListProbeDone ==
  /\ list.pc = "probing"
  /\ originalDir[Head(list.files)].ok
  /\ LET f    == Head(list.files)
         meta == ProbeFile(originalDir[f])
     IN  list' = ListGoesOn(
                   [list EXCEPT
                      !.probed = @ \cup {f},
                      !.images = Append(@, [file |-> f, id |-> FileStem(f),
                                            width |-> meta.width,
                                            height |-> meta.height,
                                            originalFormat |-> meta.format])],
                   Tail(list.files))
  /\ UNCHANGED <<page, originalDir, tempDir, ing, tileVars>>

\* getImageMetadata rejects (lines 268, 278-281): the file is logged and
\* the loop continues
ListProbeFail ==
  /\ list.pc = "probing"
  /\ ~originalDir[Head(list.files)].ok
  /\ list' = ListGoesOn([list EXCEPT !.failed = @ \cup {Head(list.files)}],
                        Tail(list.files))
  /\ UNCHANGED <<page, originalDir, tempDir, ing, tileVars>>

NextIngest ==
  \/ \E i \in Ingests, c \in UploadCalls : UploadArrives(i, c)
  \/ \E i \in Ingests : IngestProbeDone(i)
  \/ \E i \in Ingests : IngestProbeFail(i)
  \/ \E i \in Ingests : IngestRename(i)
  \/ \E i \in Ingests : IngestReaddirTemp(i)
  \/ \E i \in Ingests, f \in Ingests : IngestCleanFile(i, f)
  \/ ListStart
  \/ ListReaddir
  \/ ListProbeDone
  \/ ListProbeFail

SpecIngest == InitIngest /\ [][NextIngest]_vars

\* C21: listImages returns exactly one record for each non-hidden original
\* file whose probe and stat succeed; a file whose probe fails is skipped
\* and neither ends the listing nor drops the records of the other files,
\* whatever its position in the directory order
\* (an original never turns unreadable, and no unreadable original of the
\* model is replaced: the files whose probe succeeds are the readable ones)
C21_ListSkipsUnreadable ==
  LET \* the records the listing holds for the file f
      RecordsFor(f) ==
        Cardinality({k \in DOMAIN list.images : list.images[k].file = f})
      \* readdir returned f to the listing, and f is not hidden
      Listed(f) ==
        /\ \E k \in DOMAIN list.snapshot : list.snapshot[k] = f
        /\ ~IsHidden(f)
  IN  list.pc = "done" =>
        /\ \A f \in DOMAIN originalDir :
             RecordsFor(f) = IF Listed(f) /\ originalDir[f].ok THEN 1 ELSE 0
        /\ Len(list.images)
             = Cardinality({f \in DOMAIN originalDir :
                              Listed(f) /\ originalDir[f].ok})
        /\ list.failed
             = {f \in DOMAIN originalDir : Listed(f) /\ ~originalDir[f].ok}

\* a listing with the unreadable c.tif between two readable files: both
\* have their record
C21_Witness ==
  /\ list.pc = "done"
  /\ list.failed = {IdC \o ExtTif}
  /\ Len(list.images) = 2
  /\ originalDir[list.images[1].file].pos < originalDir[IdC \o ExtTif].pos
  /\ originalDir[IdC \o ExtTif].pos < originalDir[list.images[2].file].pos

\* C22: listImages takes width, height and format from the metadata cache:
\* an image whose metadata is known is not probed again, so repeated
\* listings of unchanged originals probe an image at most once
C22_ListProbesOnce ==
  originalDir \in IngestOriginals => list.probed \cap list.before = {}

C24_ProbeFailureAborts ==
  /\ [][\A i \in Ingests :
          (ing[i].pc = "probing" /\ ~TempReadable(i) /\ ing'[i] # ing[i]) =>
            /\ ing'[i].pc = "done"
            /\ ing'[i].status = 500
            /\ tempDir' = tempDir
            /\ originalDir' = originalDir]_vars
  /\ [](\A i \in Ingests :
          (ing[i].pc \notin {"idle", "probing"} /\ ing[i].metadata = None) =>
            /\ ing[i].pc = "done"
            /\ ing[i].status = 500
            /\ ~ing[i].moved)

\* the upload of a file that is no image has been answered 500: its
\* temporary file is still there and the originals are those of the start
C24_Witness ==
  \E i \in Ingests :
    /\ ing[i].pc = "done"
    /\ ing[i].status = 500
    /\ ing[i].metadata = None
    /\ ~ing[i].call.content.ok
    /\ i \in DOMAIN tempDir
    /\ tempDir[i] = ing[i].call.content
    /\ originalDir \in IngestOriginals

C26_NoOverwrite ==
  /\ [][\A f \in DOMAIN originalDir :
          /\ f \in DOMAIN originalDir'
          /\ originalDir'[f].width = originalDir[f].width
          /\ originalDir'[f].height = originalDir[f].height
          /\ originalDir'[f].format = originalDir[f].format
          /\ originalDir'[f].ok = originalDir[f].ok]_vars
  /\ [](\A f, g \in DOMAIN originalDir :
          FileStem(f) = FileStem(g) => f = g)

----------------------------------------------------------------------------
(* The cache path of a tile: path.join and the strings it is made of *)

\* the decimal digits of n >= 0, as String(n) and `${n}` write them
RECURSIVE DecimalString(_)
DecimalString(n) ==
  IF n < 10
    THEN <<CHOOSE d \in Digits : DigitVal(d) = n>>
    ELSE Append(DecimalString(n \div 10),
                CHOOSE d \in Digits : DigitVal(d) = n % 10)

\* String(level) for a level that is NaN or an integer (line 185)
NumberString(num) ==
  IF num.nan THEN <<"N", "a", "N">>
  ELSE IF num.v < 0 THEN <<"-">> \o DecimalString(0 - num.v)
  ELSE DecimalString(num.v)

\* s.split('/')
RECURSIVE SplitPath(_)
SplitPath(s) ==
  IF s = <<>> THEN << <<>> >>
  ELSE LET rest == SplitPath(Tail(s))
       IN  IF s[1] = "/"
             THEN << <<>> >> \o rest
             ELSE << <<s[1]>> \o rest[1] >> \o Tail(rest)

\* path.normalize on the segments of a relative path: empty and "."
\* segments go, ".." takes the segment before it away
RECURSIVE NormalizeSegments(_, _)
NormalizeSegments(segs, acc) ==
  IF segs = <<>> THEN acc
  ELSE LET h == Head(segs)
       IN  IF h = <<>> \/ h = <<".">>
             THEN NormalizeSegments(Tail(segs), acc)
           ELSE IF h = <<".", ".">> /\ acc # <<>> /\ acc[Len(acc)] # <<".", ".">>
             THEN NormalizeSegments(Tail(segs), SubSeq(acc, 1, Len(acc) - 1))
           ELSE NormalizeSegments(Tail(segs), Append(acc, h))

\* the parts with a "/" between them
RECURSIVE SlashJoined(_)
SlashJoined(parts) ==
  IF parts = <<>> THEN <<>>
  ELSE IF Len(parts) = 1 THEN parts[1]
  ELSE parts[1] \o <<"/">> \o SlashJoined(Tail(parts))

\* path.join(...parts): the parts joined with "/" and normalized.  Paths
\* are written relative to uploadsDir, which is where tilesDir and
\* originalDir lie (lines 18-20).
PathJoin(parts) ==
  LET segs == NormalizeSegments(SplitPath(SlashJoined(parts)), <<>>)
  IN  IF segs = <<>> THEN <<".">> ELSE SlashJoined(segs)

\* tilesDir, relative to uploadsDir (line 19)
TilesDirName == <<"t", "i", "l", "e", "s">>

\* `${x}_${y}.jpg`
TileFileName(x, y) == DecimalString(x) \o <<"_">> \o DecimalString(y) \o Jpg

\* line 185: path.join(this.tilesDir, imageId, String(level), `${x}_${y}.jpg`)
TilePathString(imageId, level, x, y) ==
  PathJoin(<<TilesDirName, imageId, NumberString(level), TileFileName(x, y)>>)

\* line 167: path.join(this.originalDir, `${imageId}.tif`)
ImagePathString(imageId) ==
  PathJoin(<<<<"o", "r", "i", "g", "i", "n", "a", "l">>, imageId \o ExtTif>>)

\* GET /api/image/{id}/{level}/{tile} up to line 185 of
\* generateTileOnDemand: the coordinate the route parses (server.js 80-93),
\* the path of the original (line 167) and the cache path (line 185)
PathOfRequest(u) ==
  LET imageId == StripFilesSuffix(u.id)
      level   == ParseInt(u.level)
      x       == TileX(u.tile)
      y       == TileY(u.tile)
  IN  [url       |-> u,
       coord     |-> [imageId |-> imageId, level |-> level, x |-> x, y |-> y],
       imagePath |-> ImagePathString(imageId),
       tilePath  |-> TilePathString(imageId, level, x, y)]

\* a tile request whose tile segment passes the regex computes its paths;
\* the model follows two requests
PathRequest(u) ==
  /\ pathCall.phase \in {"none", "one"}
  /\ TileMatch(u.tile)
  /\ pathCall' = IF pathCall.phase = "none"
                   THEN [phase |-> "one", first |-> PathOfRequest(u)]
                   ELSE [phase |-> "two", first |-> pathCall.first,
                         second |-> PathOfRequest(u)]
  /\ UNCHANGED <<page, originalDir, tempDir, ing, list, metadataCache, tileFiles,
                 tileDirs, req, nCalls, lastSolo, probeLog, geo, leftovers>>

\* the URLs whose paths are computed: image ids a, ab and ./a, level
\* segments 1, 01, -1 and x, coordinates 0, 1 and 11, .jpg and .jpeg
NextPath ==
  \E u \in
     { [id |-> i \o FilesSuffix, level |-> l, tile |-> x \o <<"_">> \o y \o e] :
         i \in {IdA, IdAB, <<".", "/", "a">>},
         l \in {<<"1">>, <<"0", "1">>, <<"-", "1">>, <<"x">>},
         x \in {<<"0">>, <<"1">>, <<"1", "1">>},
         y \in {<<"0">>, <<"1">>, <<"1", "1">>},
         e \in {Jpg, Jpeg} } : PathRequest(u)

SpecPath == Init /\ [][NextPath]_vars

\* C30: the cache path is a function of (imageId, level, x, y) alone, it
\* is tiles/{imageId}/{level}/{x}_{y}.jpg, two distinct coordinates never
\* have the same path, and the .jpg and the .jpeg request of one
\* coordinate have the same path
C30_PathInjective ==
  LET \* fs.access(imagePath) succeeds on a.tif, or the directory scan
      \* finds a name that starts with imageId (lines 169-177): the call
      \* goes on to line 185
      ReachesTilePath(c) ==
        \/ c.imagePath = ImagePathString(IdA)
        \/ \E f \in DOMAIN originalDir : StartsWith(f, c.coord.imageId)
      \* the text tiles/{imageId}/{level}/{x}_{y}.jpg written out
      TilePathForm(c) ==
        TilesDirName \o <<"/">> \o c.imageId \o <<"/">>
          \o NumberString(c.level) \o <<"/">> \o TileFileName(c.x, c.y)
  IN  pathCall.phase = "two" =>
        LET p == pathCall.first
            q == pathCall.second
        IN  (ReachesTilePath(p) /\ ReachesTilePath(q)) =>
              /\ p.tilePath = TilePathForm(p.coord)
              /\ (p.coord = q.coord) <=> (p.tilePath = q.tilePath)

----------------------------------------------------------------------------
(* Uploads in flight together *)

\* C31: a successful processUpload never deletes the temporary file of
\* another upload that is still in flight, and so never makes the probe or
\* the move of an upload of a readable image fail
C31_NoCrossDeletion ==
  /\ [][\A i \in Ingests :
          (ing[i].pc \in {"probing", "rename"} /\ i \in DOMAIN tempDir
             /\ ing'[i] = ing[i])
            => i \in DOMAIN tempDir']_vars
  /\ [](\A i \in Ingests :
          (ing[i].pc = "done" /\ ing[i].call.content.ok) => ing[i].status = 200)

----------------------------------------------------------------------------
(* The tiles of a level, the smallest images and the client's pyramid *)

\* C32: for every level in 0..maxLevel the extract regions of the valid
\* tiles partition the source image.  The region of tile (x, y) is a column
\* interval that depends on x alone times a row interval that depends on
\* y alone; the column interval of tile 0 starts at 0, the interval of
\* every valid tile is non-empty and ends where that of the next valid tile
\* starts, or at the image's width when there is no next one; likewise
\* for the rows
C32_RegionsPartition ==
  (geo.phase = "plan" /\ GeoLevelInPyramid /\ GeoValidCoordinate) =>
    LET e     == geo.plan.extract
        right == TilePlan(geo.level, geo.x + 1, geo.y, geo.tileSize,
                          geo.width, geo.height).extract
        below == TilePlan(geo.level, geo.x, geo.y + 1, geo.tileSize,
                          geo.width, geo.height).extract
        col0  == TilePlan(geo.level, geo.x, 0, geo.tileSize,
                          geo.width, geo.height).extract
        row0  == TilePlan(geo.level, 0, geo.y, geo.tileSize,
                          geo.width, geo.height).extract
    IN  /\ e.left = col0.left /\ e.width = col0.width
        /\ e.top = row0.top /\ e.height = row0.height
        /\ geo.x = 0 => e.left = 0
        /\ geo.y = 0 => e.top = 0
        /\ e.width >= 1 /\ e.height >= 1
        /\ e.left + e.width
             = IF (geo.x + 1) * geo.tileSize < GeoScaledWidth
                 THEN right.left ELSE geo.width
        /\ e.top + e.height
             = IF (geo.y + 1) * geo.tileSize < GeoScaledHeight
                 THEN below.top ELSE geo.height

\* the last tile of the middle level of a 601x300 image (tileSize 128,
\* scale 2, scaled size 301x150): the third column of tiles, 45 wide, takes
\* the source columns 512..600 and, being in the second row, the source
\* rows 256..299
C32_Witness ==
  /\ geo.phase = "plan"
  /\ geo.width = 601 /\ geo.height = 300 /\ geo.tileSize = 128
  /\ geo.level = GeoMaxLevel - 1 /\ geo.x = 2 /\ geo.y = 1
  /\ ~geo.plan.skip
  /\ geo.plan.extract = [left |-> 512, top |-> 256, width |-> 89, height |-> 44]

\* C33: calculateLevels returns at least 1 for every image with positive
\* width and height, images smaller than tileSize included, so level 0
\* exists and maxLevel = levels - 1 is never negative
C33_AtLeastOneLevel ==
  geo.phase \in {"levels", "plan"} => geo.levels >= 1 /\ GeoMaxLevel >= 0

\* C34: at level 0 the whole image fits in one tile: when max(width,
\* height) >= tileSize the scaled width and height of level 0 are at most
\* tileSize and (0,0) is the only valid tile of level 0; for 10000x8000
\* with tileSize 256 level 0 is 157x125
C34_LevelZeroOneTile ==
  (/\ geo.phase = "plan"
   /\ geo.level = 0
   /\ (geo.width >= geo.tileSize \/ geo.height >= geo.tileSize)) =>
    /\ geo.plan.scaled.width <= geo.tileSize
    /\ geo.plan.scaled.height <= geo.tileSize
    /\ geo.plan.skip <=> ~(geo.x = 0 /\ geo.y = 0)
    /\ (geo.width = 10000 /\ geo.height = 8000 /\ geo.tileSize = 256) =>
         geo.plan.scaled = [width |-> 157, height |-> 125]

\* the one tile of level 0 of the 10000x8000 image is the whole image
C34_Witness ==
  /\ geo.phase = "plan"
  /\ geo.width = 10000 /\ geo.height = 8000 /\ geo.tileSize = 256
  /\ geo.level = 0 /\ geo.x = 0 /\ geo.y = 0
  /\ ~geo.plan.skip
  /\ geo.plan.resize = [width |-> 157, height |-> 125]
  /\ geo.plan.extract = [left |-> 0, top |-> 0, width |-> 10000, height |-> 8000]

\* C35: the pyramid loadImage builds equals the pyramid of generateTile
\* (tileSize 256 on both sides): the same maxLevel, for every level in
\* 0..maxLevel the same scaled width and height, and a tile that lies in
\* the client's level is a tile the server does not consider out of bounds
C35_ClientPyramid ==
  (geo.phase = "client" /\ geo.tileSize = 256) =>
    LET client == geo.client
    IN  /\ client.maxLevel = geo.levels - 1
        /\ DOMAIN client.levels = 1..geo.levels
        /\ geo.level \in 0..client.maxLevel =>
             LET l == client.levels[geo.level + 1]
             IN  /\ l.width = geo.plan.scaled.width
                 /\ l.height = geo.plan.scaled.height
                 /\ l.tileWidth = geo.tileSize /\ l.tileHeight = geo.tileSize
                 /\ (/\ geo.x * l.tileWidth < l.width
                     /\ geo.y * l.tileHeight < l.height) => ~geo.plan.skip

\* level 1 of a 513x512 image is 257x256 on both sides, and its tile (1,0),
\* one pixel wide, is generated
C35_Witness ==
  /\ geo.phase = "client"
  /\ geo.width = 513 /\ geo.height = 512 /\ geo.tileSize = 256
  /\ geo.level = 1 /\ geo.x = 1 /\ geo.y = 0
  /\ geo.client.maxLevel = 2
  /\ geo.client.levels[2].width = 257
  /\ geo.plan.scaled = [width |-> 257, height |-> 256]
  /\ ~geo.plan.skip
  /\ geo.plan.resize = [width |-> 1, height |-> 256]

----------------------------------------------------------------------------
(* The catalogue: what listImages reports and what generateTileOnDemand     *)
(* opens for the id reported                                                *)

\* the sets of originals listed and resolved: every non-empty set of the
\* names a.tif, a.scn and ab.scn in every directory order
InitCatalog ==
  /\ originalDir \in
       UNION { { [f \in S |-> Tiff300 @@ [pos |-> p[f]]] :
                   p \in {q \in [S -> 1..Cardinality(S)] :
                            \A f, g \in S : f # g => q[f] # q[g]} } :
               S \in (SUBSET {IdA \o ExtTif, IdA \o ExtScn,
                              IdAB \o ExtScn}) \ {{}} }
  /\ metadataCache = <<>>
  /\ tileFiles = <<>>
  /\ tileDirs = {}
  /\ req = [r \in Reqs |-> IdleReq]
  /\ nCalls = 0
  /\ lastSolo = None
  /\ probeLog = NoProbes
  /\ geo = NoGeo
  /\ leftovers = {}
  /\ tempDir = <<>>
  /\ ing = [i \in Ingests |->
              [pc |-> "idle", call |-> None, metadata |-> None, status |-> 0,
               info |-> None, snapshot |-> {}, moved |-> FALSE]]
  /\ list = [pc |-> "idle", files |-> <<>>, snapshot |-> <<>>,
             images |-> <<>>, probed |-> {}, failed |-> {}, before |-> {},
             known |-> {}, n |-> 0]
  /\ pathCall = [phase |-> "none"]
  /\ page = [view |-> "none"]

\* GET /api/images, and tile requests for the ids a, ab and b followed up
\* to the original they open (lines 167-178)
NextCatalog ==
  \/ ListStart \/ ListReaddir \/ ListProbeDone
  \/ \E r \in Reqs :
       \E u \in {v \in Urls : /\ v.level = <<"0">>
                              /\ TileMatch(v.tile)
                              /\ ImageIdOf(v) # IdC} : Start(r, u)
  \/ \E r \in Reqs : AccessOriginal(r)
  \/ \E r \in Reqs : ReaddirFound(r)
  \/ \E r \in Reqs : ReaddirNotFound(r)

SpecCatalog == InitCatalog /\ [][NextCatalog]_vars

\* C36: for every record listImages returns, generateTileOnDemand called
\* with record.id finds an original, and it is the file the record was
\* derived from, whatever the set of originals (ids that are prefixes of
\* other ids and one id under two extensions included)
C36_ListIdResolves ==
  \A r \in Reqs, k \in DOMAIN list.images :
    ImageIdOf(req[r].url) = list.images[k].id =>
      /\ req[r].pc = "probing" => req[r].imagePath = list.images[k].file
      /\ req[r].pc = "done" => req[r].status # 404

----------------------------------------------------------------------------
(* A probe that fails inside getCachedMetadata *)

\* C37: when getImageMetadata rejects inside getCachedMetadata the cache is
\* left as it was (no entry is stored: every entry is the metadata of a
\* readable original), the error reaches the caller, which answers 404,
\* and a later call for an imageId whose original cannot be read enters
\* the probe again instead of being answered from the cache (a restart of
\* the process, which drops the request, is no outcome of the probe)
C37_FailedProbeStoresNothing ==
  /\ [][\A r \in Reqs :
          (/\ req[r].pc = "probing"
           /\ req'[r].pc \notin {"probing", "idle"}
           /\ ~originalDir[req[r].imagePath].ok) =>
            /\ metadataCache' = metadataCache
            /\ req'[r].pc = "done"
            /\ req'[r].status = 404]_vars
  /\ [][\A r \in Reqs :
          (/\ req[r].pc \in {"access", "readdir"}
           /\ req'[r].pc \in {"probing", "accessTile"}
           /\ ~originalDir[req'[r].imagePath].ok) =>
            /\ req'[r].pc = "probing"
            /\ req'[r].probes = 1]_vars
  /\ [](\A id \in DOMAIN metadataCache :
          \E f \in DOMAIN originalDir :
            /\ originalDir[f].ok
            /\ metadataCache[id] = getImageMetadata(f))

\* two calls in a row for the unreadable c.tif: both probed, the second
\* has been answered 404 and the cache holds nothing for c
C37_Witness ==
  /\ ~probeLog.overlap
  /\ ProbesOf(probeLog, IdC) = 2
  /\ IdC \notin DOMAIN metadataCache
  /\ \E r \in Reqs :
       /\ req[r].pc = "done"
       /\ ImageIdOf(req[r].url) = IdC
       /\ req[r].probes = 1
       /\ req[r].status = 404

----------------------------------------------------------------------------
(* The viewer page: main.js *)

MaxClicks == 3

\* isValidDziUrl (main.js 10-18) of a link that is not empty: new URL(url)
\* parses it, the protocol is http: or https: and the pathname ends with
\* .dzi; the links of the model are written in lower case
isValidDziUrl(url) ==
  /\ url.parses
  /\ url.protocol \in {"http:", "https:"}
  /\ EndsWith(url.pathname, <<".", "d", "z", "i">>)

\* trackPerformance (main.js 36-58): what the event does to #perf-log and
\* #loader; loadTimeSeconds is the text toFixed(3) returns, which is never
\* the empty string.  The texts are named: "loaded" is 'Loaded in ...
\* seconds.', "failed" is 'Failed to load image.'
trackPerformance(p, event) ==
  IF event = "image-opened"
    THEN [p EXCEPT !.perfLog = "loaded", !.perfColor = "#555",
                   !.loader = "none"]
  ELSE IF event = "viewer-init-start"
    THEN [p EXCEPT !.perfLog = "", !.perfColor = "#555", !.loader = "block"]
  ELSE IF event = "viewer-init-error"
    THEN [p EXCEPT !.perfLog = "failed", !.perfColor = "#c0392b",
                   !.loader = "none"]
  ELSE p

\* loadDZI (main.js 66-97): the previous viewer is destroyed and its events
\* with it, 'viewer-init-start' is tracked and a new viewer starts to open
\* the tile source; the one handler registered is that of 'open'
loadDZI(p, tileSource) ==
  [trackPerformance(p, "viewer-init-start") EXCEPT
     !.viewer = [source |-> tileSource, status |-> "opening"]]

\* the page after DOMContentLoaded (main.js 100-117): the default image is
\* being loaded
InitViewer ==
  /\ originalDir = InitialOriginals
  /\ metadataCache = <<>>
  /\ tileFiles = <<>>
  /\ tileDirs = {}
  /\ req = [r \in Reqs |-> IdleReq]
  /\ nCalls = 0
  /\ lastSolo = None
  /\ probeLog = NoProbes
  /\ geo = NoGeo
  /\ leftovers = {}
  /\ tempDir = <<>>
  /\ ing = <<>>
  /\ list = [pc |-> "none"]
  /\ pathCall = [phase |-> "none"]
  /\ page = loadDZI([view |-> "viewer", loader |-> "none", perfLog |-> "",
                     perfColor |-> "#555", timers |-> 0, clicks |-> 0,
                     viewer |-> [source |-> "none", status |-> "none"]],
                    [empty |-> FALSE, parses |-> TRUE, protocol |-> "https:",
                     pathname |-> <<"/", "h", ".", "d", "z", "i">>])

\* a click on #use-link with url in #link-input (main.js 102-113): an
\* empty or invalid link is answered by showInputError (main.js 24-29),
\* which writes its message and starts a timer of 3 s; a valid one is loaded
UseLinkClick(url) ==
  /\ page.clicks < MaxClicks
  /\ page' = IF url.empty \/ ~isValidDziUrl(url)
               THEN [page EXCEPT
                       !.clicks = @ + 1,
                       !.perfLog = IF url.empty THEN "enter-url"
                                                ELSE "invalid-url",
                       !.perfColor = "#c0392b",
                       !.timers = @ + 1]
               ELSE [loadDZI(page, url) EXCEPT !.clicks = @ + 1]
  /\ UNCHANGED <<originalDir, metadataCache, tileFiles, tileDirs, req, nCalls,
                 lastSolo, probeLog, geo, leftovers, tempDir, ing, list,
                 pathCall>>

\* the viewer raises 'open': the handler of main.js 89-96 tracks
\* 'image-opened'
ViewerOpened ==
  /\ page.viewer.status = "opening"
  /\ page' = [trackPerformance(page, "image-opened") EXCEPT
                !.viewer.status = "open"]
  /\ UNCHANGED <<originalDir, metadataCache, tileFiles, tileDirs, req, nCalls,
                 lastSolo, probeLog, geo, leftovers, tempDir, ing, list,
                 pathCall>>

\* the viewer raises 'open-failed': loadDZI has registered no handler for
\* it and nothing tracks 'viewer-init-error'
ViewerOpenFailed ==
  /\ page.viewer.status = "opening"
  /\ page' = [page EXCEPT !.viewer.status = "failed"]
  /\ UNCHANGED <<originalDir, metadataCache, tileFiles, tileDirs, req, nCalls,
                 lastSolo, probeLog, geo, leftovers, tempDir, ing, list,
                 pathCall>>

\* a timer of showInputError fires (main.js 28)
InputErrorTimeout ==
  /\ page.timers > 0
  /\ page' = [page EXCEPT !.timers = @ - 1, !.perfLog = "",
                          !.perfColor = "#555"]
  /\ UNCHANGED <<originalDir, metadataCache, tileFiles, tileDirs, req, nCalls,
                 lastSolo, probeLog, geo, leftovers, tempDir, ing, list,
                 pathCall>>

\* the links typed: none, text that is no URL, a link with another
\* protocol, a link to a file that is no .dzi, and two links to .dzi files
NextViewer ==
  \/ \E url \in
         { [empty |-> TRUE, parses |-> FALSE, protocol |-> "", pathname |-> <<>>],
           [empty |-> FALSE, parses |-> FALSE, protocol |-> "", pathname |-> <<>>],
           [empty |-> FALSE, parses |-> TRUE, protocol |-> "ftp:",
            pathname |-> <<"/", "a", ".", "d", "z", "i">>],
           [empty |-> FALSE, parses |-> TRUE, protocol |-> "http:",
            pathname |-> <<"/", "a", ".", "t", "i", "f">>],
           [empty |-> FALSE, parses |-> TRUE, protocol |-> "http:",
            pathname |-> <<"/", "a", ".", "d", "z", "i">>],
           [empty |-> FALSE, parses |-> TRUE, protocol |-> "https:",
            pathname |-> <<"/", "b", ".", "d", "z", "i">>] } :
       UseLinkClick(url)
  \/ ViewerOpened
  \/ ViewerOpenFailed
  \/ InputErrorTimeout

\* the viewer settles every load with 'open' or 'open-failed', and a timer
\* that was started fires
SpecViewer ==
  /\ InitViewer
  /\ [][NextViewer]_vars
  /\ WF_vars(ViewerOpened \/ ViewerOpenFailed)
  /\ WF_vars(InputErrorTimeout)

\* C38: the loader shown when loadDZI starts is hidden once the load has
\* ended, when the image opens and when opening fails, and on failure the
\* message 'Failed to load image.' is shown
C38_LoaderHidden ==
  /\ (page.viewer.status = "opening") ~> (page.loader = "none")
  /\ [][(page.viewer.status = "opening" /\ page'.viewer.status = "failed")
          => page'.perfLog = "failed"]_vars

----------------------------------------------------------------------------
(* The upload page: uploadFile and showStatus *)

MaxAttempts == 2

\* showStatus (part_000 239-248): the message and its class are written,
\* #status-message is displayed and a timer of 4 s is started that hides it
showStatus(p, type) ==
  [p EXCEPT !.status = [display |-> "block", type |-> type],
            !.timers = @ + 1]

\* the upload page before any file is chosen
InitUploadPage ==
  /\ originalDir = InitialOriginals
  /\ metadataCache = <<>>
  /\ tileFiles = <<>>
  /\ tileDirs = {}
  /\ req = [r \in Reqs |-> IdleReq]
  /\ nCalls = 0
  /\ lastSolo = None
  /\ probeLog = NoProbes
  /\ geo = NoGeo
  /\ leftovers = {}
  /\ tempDir = <<>>
  /\ ing = <<>>
  /\ list = [pc |-> "none"]
  /\ pathCall = [phase |-> "none"]
  /\ page = [view |-> "upload", progress |-> "none", progressText |-> "",
             status |-> [display |-> "none", type |-> "none"],
             timers |-> 0, xhr |-> <<>>]

\* uploadFile up to xhr.send (part_000 253-300): the progress elements are
\* shown and reset, the listeners are registered and the request is sent
\* (the status of a request is 0 until a response has arrived);
\* none of these statements throws, so the catch block (301-305) is not
\* entered.  A file can be chosen while an earlier upload is in flight
UploadFile ==
  /\ Len(page.xhr) < MaxAttempts
  /\ page' = [page EXCEPT
                !.progress = "block",
                !.progressText = "uploading",
                !.xhr = Append(@, [pc |-> "sent", status |-> 0])]
  /\ UNCHANGED <<originalDir, metadataCache, tileFiles, tileDirs, req, nCalls,
                 lastSolo, probeLog, geo, leftovers, tempDir, ing, list,
                 pathCall>>

\* the 'progress' listener of xhr.upload (part_000 269-275)
XhrProgress(i) ==
  /\ page.xhr[i].pc = "sent"
  /\ page.progressText # "percent"
  /\ page' = [page EXCEPT !.progressText = "percent"]
  /\ UNCHANGED <<originalDir, metadataCache, tileFiles, tileDirs, req, nCalls,
                 lastSolo, probeLog, geo, leftovers, tempDir, ing, list,
                 pathCall>>

\* the 'load' listener (part_000 278-293): after status 200 the text
\* 'Upload complete!' is written and a timer of 1 s is started; after any
\* other status the listener throws, and the exception of an event
\* listener is caught by nothing: the try block it was registered in has
\* long been left
XhrLoad(i, status) ==
  /\ page.xhr[i].pc = "sent"
  /\ page' = IF status = 200
               THEN [page EXCEPT !.progressText = "complete",
                                 !.xhr[i] = [pc |-> "timer", status |-> 200]]
               ELSE [page EXCEPT
                       !.xhr[i] = [pc |-> "ended", status |-> status]]
  /\ UNCHANGED <<originalDir, metadataCache, tileFiles, tileDirs, req, nCalls,
                 lastSolo, probeLog, geo, leftovers, tempDir, ing, list,
                 pathCall>>

\* the 'error' listener (part_000 295-298): the request failed on the
\* network
XhrError(i) ==
  /\ page.xhr[i].pc = "sent"
  /\ page' = [showStatus([page EXCEPT !.progress = "none"], "error") EXCEPT
                !.xhr[i] = [pc |-> "ended", status |-> 0]]
  /\ UNCHANGED <<originalDir, metadataCache, tileFiles, tileDirs, req, nCalls,
                 lastSolo, probeLog, geo, leftovers, tempDir, ing, list,
                 pathCall>>

\* the timer of the 'load' listener fires (part_000 284-288); loadFileList
\* rewrites the list of files, which is no part of this page state
UploadCompleteTimeout(i) ==
  /\ page.xhr[i].pc = "timer"
  /\ page' = [showStatus([page EXCEPT !.progress = "none"], "success") EXCEPT
                !.xhr[i].pc = "ended"]
  /\ UNCHANGED <<originalDir, metadataCache, tileFiles, tileDirs, req, nCalls,
                 lastSolo, probeLog, geo, leftovers, tempDir, ing, list,
                 pathCall>>

\* a timer of showStatus fires (part_000 245-247)
StatusTimeout ==
  /\ page.timers > 0
  /\ page' = [page EXCEPT !.timers = @ - 1, !.status.display = "none"]
  /\ UNCHANGED <<originalDir, metadataCache, tileFiles, tileDirs, req, nCalls,
                 lastSolo, probeLog, geo, leftovers, tempDir, ing, list,
                 pathCall>>

\* the statuses the server answers an upload with: 200, 400 (no file) and
\* 500 (processUpload failed)
NextUploadPage ==
  \/ UploadFile
  \/ \E i \in DOMAIN page.xhr : XhrProgress(i)
  \/ \E i \in DOMAIN page.xhr, status \in {200, 400, 500} : XhrLoad(i, status)
  \/ \E i \in DOMAIN page.xhr : XhrError(i)
  \/ \E i \in DOMAIN page.xhr : UploadCompleteTimeout(i)
  \/ StatusTimeout

SpecUploadPage == InitUploadPage /\ [][NextUploadPage]_vars

\* C39: the step that ends an upload attempt leaves the progress indicator
\* hidden and a status message displayed: success after a 200 response,
\* failure after a network error or a response with any other status
C39_AttemptEndsWithStatus ==
  [][\A i \in DOMAIN page.xhr :
       (page.xhr[i].pc # "ended" /\ page'.xhr[i].pc = "ended")
         => /\ page'.progress = "none"
            /\ page'.status.display = "block"
            /\ page'.status.type = IF page'.xhr[i].status = 200
                                      THEN "success" ELSE "error"]_vars


============================================================================
